---- MODULE Spec2Model ----
(***************************************************************************)
(* Model of the perfume-shop backend (Flask handlers over a MySQL/InnoDB    *)
(* database).  The committed tables are the shared state; every request    *)
(* runs on its own connection, i.e. in its own transaction (PyMySQL opens  *)
(* connections with autocommit off; InnoDB runs them at REPEATABLE READ).   *)
(*                                                                         *)
(* checkout is modelled statement by statement where other transactions    *)
(* can interleave: the plain SELECT on perfumes is a consistent read of     *)
(* the transaction's read view, the UPDATE on perfumes is a locking write   *)
(* on the latest committed row version.  Money is counted in whole units.   *)
(***************************************************************************)
EXTENDS Integers, Sequences, FiniteSets, TLC

\* ------------------------------------------------------------------ bounds
MaxStock == 2        \* initial / admin-set stock ranges over 0..MaxStock
MaxCheckouts == 2    \* checkout requests issued in one behaviour
MaxAdminOps == 1     \* admin update_perfume / delete_perfume requests
MaxCartAdds == 2     \* add_to_cart requests

\* ------------------------------------------------------------- identities
Procs == {"u1", "u2"}          \* customer sessions; request.user_id of each
PerfumeIds == {1, 2}           \* ids of the rows of table perfumes
UnknownId == Cardinality(PerfumeIds) + 1   \* an id with no row in perfumes
NULL == "NULL"

\* ------------------------------------------------------- JSON body values
Num(n) == [t |-> "num", n |-> n]
Str(s) == [t |-> "str", s |-> s]
Absent == [t |-> "absent"]

\* int(x) / float(x) succeed on numbers and raise on anything else
Converts(v) == v.t = "num"

\* ---------------------------------------------------------- string helpers
\* strings whose characters matter are sequences of one-character strings
Digits == {"0", "1", "2", "3", "4", "5", "6", "7", "8", "9"}

RECURSIVE RemoveSpaces(_)
RemoveSpaces(s) ==
    IF s = <<>> THEN <<>>
    ELSE IF Head(s) = " " THEN RemoveSpaces(Tail(s))
         ELSE <<Head(s)>> \o RemoveSpaces(Tail(s))

\* str.strip() leaves the empty string exactly when every character is blank
IsBlank(s) == \A i \in 1..Len(s) : s[i] = " "

IsDigit(s) == s # <<>> /\ \A i \in 1..Len(s) : s[i] \in Digits

\* s[-n:]
LastN(s, n) == IF Len(s) <= n THEN s ELSE SubSeq(s, Len(s) - n + 1, Len(s))

Lower(s) ==
    CASE s = "COD" -> "cod"
      [] s = "Card" -> "card"
      [] s = "UPI" -> "upi"
      [] OTHER -> s

\* ------------------------------------------------------------------- state
VARIABLES
    perfumes,         \* table perfumes: id -> row
    carts,            \* table carts: set of rows
    orders,           \* table orders: set of rows
    order_items,      \* table order_items: set of rows
    payment_details,  \* table payment_details: set of rows
    next_order_id,    \* AUTO_INCREMENT of orders
    row_lock,         \* InnoDB exclusive lock on a perfumes row: id -> holder
    pc,               \* position of each session's checkout request
    data,             \* the request body being processed
    order_id,         \* cursor.lastrowid of the order header
    idx,              \* index of the line item being processed
    read_view,        \* the transaction's consistent-read snapshot of perfumes
    tx,               \* the transaction's uncommitted writes
    last,             \* the last completed exchange: request and response
    started,          \* number of checkout requests issued
    admin_ops,        \* number of admin requests issued
    cart_adds,        \* number of add_to_cart requests issued
    cart_tx,          \* each session's add_to_cart request between its statements and its commit
    clock,            \* datetime.utcnow(), in hours
    tokens,           \* the tokens the login routes have issued
    reviews,          \* table reviews: set of rows
    next_review_id,   \* AUTO_INCREMENT of reviews
    discounts,        \* table discounts: set of rows
    next_discount_id, \* AUTO_INCREMENT of discounts
    today,            \* CURRENT_DATE(), as a day number
    offer_tx,         \* each admin session's add_special_offer between its INSERT and its commit
    overlapped,       \* history: two add_special_offer requests were in flight together
    favorites,        \* table favorites: set of rows
    sold_out,         \* history: last committed write of the row was a checkout leaving 0
    after_zero        \* history: rows sold out when the request arrived and untouched since

vars == <<perfumes, carts, orders, order_items, payment_details, next_order_id,
          row_lock, pc, data, order_id, idx, read_view, tx, last,
          started, admin_ops, cart_adds, cart_tx, sold_out, after_zero,
          clock, tokens, reviews, next_review_id, discounts, next_discount_id, today,
          offer_tx, overlapped, favorites>>

\* the tables of reviews and discounts
offers == <<discounts, next_discount_id, today, offer_tx, overlapped>>

\* what the cart, checkout and catalog handlers never touch
side == <<clock, tokens, reviews, next_review_id, offers, favorites>>

\* what the review and discount handlers never touch
shop == <<carts, orders, order_items, payment_details, next_order_id, row_lock,
          pc, data, order_id, idx, read_view, tx, started, admin_ops, cart_adds, cart_tx,
          sold_out, after_zero, clock, tokens, favorites>>

tables == <<perfumes, carts, orders, order_items, payment_details>>

session == <<pc, data, order_id, idx, read_view, tx>>

counters == <<started, admin_ops, cart_adds>>

NoProc == "none"

\* the connections that add to carts: one per customer, and a second one of
\* customer u1 (another tab or device with the same token)
CartSessions == Procs \cup {"u1b"}

\* request.user_id of a connection
UserOf(k) == IF k = "u1b" THEN "u1" ELSE k

PerfumeName(p) == IF p = 1 THEN "P1" ELSE "P2"
DbSize(p) == "50ml"

NoRow == [exists |-> FALSE, quantity |-> 0, available |-> 0, price |-> 0]
NoView == [set |-> FALSE, rows |-> [p \in PerfumeIds |-> NoRow]]
NoTx == [orders |-> {}, order_items |-> {}, rows |-> [p \in PerfumeIds |-> NoRow]]
NoResp == [code |-> 0, error |-> "", arg |-> "", n |-> 0]

Response(code, error, arg, n) == [code |-> code, error |-> error, arg |-> arg, n |-> n]

\* --------------------------------------------------------- request bodies
ship_keys == <<"firstName", "lastName", "email", "phone", "address", "city", "state", "zip">>
card_keys == <<"cardName", "cardNumber", "expiry", "cvv">>
required == <<"shipping", "payment_method", "items", "totalPrice", "tax", "shippingCost">>

Range(s) == {s[i] : i \in 1..Len(s)}

Txt == <<"A", "n", "n">>
GoodShipping == [k \in Range(ship_keys) |-> Txt]

Card16 == <<"4","1","1","1","1","1","1","1","1","1","1","1","1","2","3","4">>
GoodCard == [cardName |-> Txt, cardNumber |-> Card16,
             expiry |-> <<"1","2","/","3","0">>, cvv |-> <<"1","2","3">>]
NoCard == [cardName |-> <<>>, cardNumber |-> <<>>, expiry |-> <<>>, cvv |-> <<>>]

Item(p, q) == [perfume_id |-> Num(p), quantity |-> Num(q),
               selectedSize |-> NULL, price |-> Num(10)]

Body(pm, items, total) ==
    [keys |-> Range(required), shipping |-> GoodShipping, payment_method |-> pm,
     items |-> items, totalPrice |-> total, tax |-> Num(1), shippingCost |-> Num(5),
     card_details |-> IF Lower(pm) = "card" THEN GoodCard ELSE NoCard]

NoData == Body("cod", <<>>, Num(0))


\* ------------------------------------------------- checkout: validation
RECURSIVE FirstIn(_, _)
\* the first element of sequence s that lies in S (the loop returns there)
FirstIn(s, S) ==
    IF s = <<>> THEN NULL
    ELSE IF Head(s) \in S THEN Head(s) ELSE FirstIn(Tail(s), S)

MissingFields(d) == {f \in Range(required) : f \notin d.keys}

EmptyShipKeys(d) == {k \in Range(ship_keys) : IsBlank(d.shipping[k])}

CardError(key, value) ==
    IF IsBlank(value) THEN Response(400, "Card field is required", key, 0)
    ELSE IF key = "cardNumber"
            /\ (Len(RemoveSpaces(value)) < 13 \/ Len(RemoveSpaces(value)) > 19)
         THEN Response(400, "Invalid card number", "", 0)
    ELSE IF key = "cvv" /\ ~(IsDigit(value) /\ Len(value) \in {3, 4})
         THEN Response(400, "CVV must be 3 or 4 digits", "", 0)
    ELSE NoResp

RECURSIVE CardCheck(_, _)
CardCheck(keys, card) ==
    IF keys = <<>> THEN NoResp
    ELSE LET e == CardError(Head(keys), card[Head(keys)])
         IN IF e # NoResp THEN e ELSE CardCheck(Tail(keys), card)

\* the order of the spec's section 4.1: shipping fields before payment method
validate_shipping_first(d) ==
    IF MissingFields(d) # {}
    THEN Response(400, "Missing required field", FirstIn(required, MissingFields(d)), 0)
    ELSE IF EmptyShipKeys(d) # {}
    THEN Response(400, "Shipping field is required and cannot be empty",
                  FirstIn(ship_keys, EmptyShipKeys(d)), 0)
    ELSE IF Lower(d.payment_method) \notin {"card", "cod"}
    THEN Response(400, "payment_method must be 'card' or 'cod'", "", 0)
    ELSE IF d.items = <<>>
    THEN Response(400, "Items must be a non-empty list", "", 0)
    ELSE IF Lower(d.payment_method) = "card"
    THEN CardCheck(card_keys, d.card_details)
    ELSE NoResp

\* the checks made before the connection is opened; NoResp when all pass
validate(d) ==
    IF MissingFields(d) # {}
    THEN Response(400, "Missing required field", FirstIn(required, MissingFields(d)), 0)
    ELSE IF Lower(d.payment_method) \notin {"card", "cod"}
    THEN Response(400, "payment_method must be 'card' or 'cod'", "", 0)
    ELSE IF d.items = <<>>
    THEN Response(400, "Items must be a non-empty list", "", 0)
    ELSE IF EmptyShipKeys(d) # {}
    THEN Response(400, "Shipping field is required and cannot be empty",
                  FirstIn(ship_keys, EmptyShipKeys(d)), 0)
    ELSE IF Lower(d.payment_method) = "card"
    THEN CardCheck(card_keys, d.card_details)
    ELSE NoResp

\* ------------------------------------------------------------ tokens
\* A token is what jwt.encode produced: its payload and the key that signed
\* it; jwt is FALSE for a string that is not a JWT at all.
SECRET_KEY == "Config.SECRET_KEY"

TokenLifetime == 1      \* timedelta(hours=1)

Token(role_id, user_id, exp) ==
    [jwt |-> TRUE, key |-> SECRET_KEY, role_id |-> role_id, user_id |-> user_id, exp |-> exp]

Garbage == [jwt |-> FALSE, key |-> "", role_id |-> 0, user_id |-> "", exp |-> 0]

\* the Authorization header: the characters in front of the token, and the
\* token; present is FALSE when the header is missing or empty
Header(scheme, token) == [present |-> TRUE, scheme |-> scheme, token |-> token]

NoHeader == [present |-> FALSE, scheme |-> <<>>, token |-> Garbage]

\* str.lower() on the letters that matter here
LowerChar(ch) ==
    CASE ch = "B" -> "b" [] ch = "E" -> "e" [] ch = "A" -> "a" [] ch = "R" -> "r"
      [] OTHER -> ch

ToLower(s) == [i \in 1..Len(s) |-> LowerChar(s[i])]

\* token.lower().startswith('bearer '); no token begins with a space
StartsWithBearer(h) ==
    /\ Len(h.scheme) >= 7
    /\ SubSeq(ToLower(h.scheme), 1, 7) = <<"b", "e", "a", "r", "e", "r", " ">>

\* jwt.decode that never checks the exp claim
jwt_decode_no_exp(h, now) ==
    IF ~IsBlank(h.scheme) \/ ~h.token.jwt \/ h.token.key # SECRET_KEY
    THEN "InvalidTokenError"
    ELSE "payload"

\* jwt.decode(token.strip(), Config.SECRET_KEY, algorithms=['HS256']): the
\* stripped header value must be a JWT signed with the key; the signature is
\* verified before the exp claim
jwt_decode(h, now) ==
    IF ~IsBlank(h.scheme) \/ ~h.token.jwt \/ h.token.key # SECRET_KEY
    THEN "InvalidTokenError"
    ELSE IF h.token.exp <= now THEN "ExpiredSignatureError"
    ELSE "payload"

\* the (error, code) a verifier returns; code 0 stands for (payload, None, None)
Verdict(code, error) == [code |-> code, error |-> error]

Passed == Verdict(0, "")

\* a verifier that takes the token after a bearer scheme
verify_customer_token_bearer(h, now) ==
    IF ~h.present THEN Verdict(401, "Token missing")
    ELSE LET raw == IF StartsWithBearer(h) THEN Header(<<>>, h.token) ELSE h
         IN IF jwt_decode(raw, now) = "ExpiredSignatureError" THEN Verdict(401, "Token expired")
            ELSE IF jwt_decode(raw, now) = "InvalidTokenError" THEN Verdict(401, "Invalid token")
            ELSE IF h.token.role_id # 2 THEN Verdict(403, "Access denied - Customer only")
            ELSE Passed

\* cart.py lines 28-42 (favorites.py lines 21-35 are the same but for the
\* text of the 403)
verify_customer_token(h, now) ==
    IF ~h.present THEN Verdict(401, "Token missing")
    ELSE IF StartsWithBearer(h) THEN Verdict(401, "Use raw token, not Bearer")
    ELSE IF jwt_decode(h, now) = "ExpiredSignatureError" THEN Verdict(401, "Token expired")
    ELSE IF jwt_decode(h, now) = "InvalidTokenError" THEN Verdict(401, "Invalid token")
    ELSE IF h.token.role_id # 2 THEN Verdict(403, "Access denied - Customer only")
    ELSE Passed

\* perfumes.py lines 104-116 (cart.py lines 45-59 and revenue.py lines 27-41
\* answer a missing header with 'Token missing')
verify_admin_token(h, now) ==
    IF ~h.present \/ StartsWithBearer(h) THEN Verdict(401, "Use raw token, not Bearer")
    ELSE IF jwt_decode(h, now) = "ExpiredSignatureError" THEN Verdict(401, "Token expired")
    ELSE IF jwt_decode(h, now) = "InvalidTokenError" THEN Verdict(401, "Invalid token")
    ELSE IF h.token.role_id # 1 THEN Verdict(403, "Admin access required")
    ELSE Passed

\* auth.py lines 37-58, used by /dashboard and /profile: no role check
auth_verify_customer_token(h, now) ==
    IF ~h.present THEN Verdict(401, "Missing token")
    ELSE IF StartsWithBearer(h) THEN Verdict(401, "Use raw token, not Bearer")
    ELSE IF jwt_decode(h, now) = "ExpiredSignatureError" THEN Verdict(401, "Token expired")
    ELSE IF jwt_decode(h, now) = "InvalidTokenError" THEN Verdict(401, "Invalid token")
    ELSE Passed

\* the body of a response that carries no report
NoReport == [kind |-> "none"]

\* the form of a request that posts none
NoForm == [rating |-> Absent, comment |-> <<>>]

NoExchange == [op |-> "", who |-> NoProc, data |-> NoData, idx |-> 0, resp |-> NoResp,
               removed |-> {}, items |-> <<>>, added |-> <<>>, errors |-> 0,
               auth |-> NoHeader, at |-> 0, perfume_id |-> 0, report |-> NoReport,
               form |-> NoForm, ids |-> <<>>]

\* ------------------------------------------------ checkout: transaction
ReleaseLocks(c) == [p \in PerfumeIds |-> IF row_lock[p] = c THEN NoProc ELSE row_lock[p]]

Written(c) == {p \in PerfumeIds : row_lock[p] = c}

\* conn.commit(): the transaction's writes t, the payment rows pds and the
\* cart table newcarts become the committed state
Commit(c, t, pds, newcarts) ==
    /\ perfumes' = [p \in PerfumeIds |-> IF row_lock[p] = c THEN t.rows[p] ELSE perfumes[p]]
    /\ orders' = orders \cup t.orders
    /\ order_items' = order_items \cup t.order_items
    /\ payment_details' = payment_details \cup pds
    /\ carts' = newcarts
    /\ row_lock' = ReleaseLocks(c)
    /\ tx' = [tx EXCEPT ![c] = NoTx]
    /\ sold_out' = [p \in PerfumeIds |->
                      IF row_lock[p] = c THEN t.rows[p].quantity = 0 ELSE sold_out[p]]
    /\ after_zero' = [k \in Procs |-> after_zero[k] \ Written(c)]

\* conn.rollback(): the transaction's writes are discarded
Rollback(c) ==
    /\ UNCHANGED tables
    /\ row_lock' = ReleaseLocks(c)
    /\ tx' = [tx EXCEPT ![c] = NoTx]
    /\ UNCHANGED <<sold_out, after_zero>>

CloseCommits(c) == Commit(c, tx[c], {}, carts)

\* conn.close() on a connection whose transaction was neither committed nor
\* rolled back: the server rolls the transaction back
CloseUncommitted(c) == Rollback(c)

\* the request of session c ends: response r is returned for body d, whose
\* processing had reached line item i; the connection is gone.  The exchange
\* is recorded with the cart rows it deleted.
Finished(c, d, i, r) ==
    /\ last' = [NoExchange EXCEPT !.op = "checkout", !.who = c, !.data = d, !.idx = i,
                                   !.resp = r, !.removed = carts \ carts']
    /\ pc' = [pc EXCEPT ![c] = "idle"]
    /\ data' = [data EXCEPT ![c] = NoData]
    /\ idx' = [idx EXCEPT ![c] = 0]
    /\ read_view' = [read_view EXCEPT ![c] = NoView]
    /\ order_id' = [order_id EXCEPT ![c] = 0]

\* ------------------------------------------------------ checkout: steps
\* a SELECT that never shows the transaction its own writes
SnapshotRow(c, p) == IF read_view[c].set THEN read_view[c].rows[p] ELSE perfumes[p]

\* the row a plain SELECT of transaction c returns for id p: its own
\* uncommitted version if it wrote the row, else the row of its read view
\* (the read view is created by the transaction's first SELECT)
VisibleRow(c, p) ==
    IF row_lock[p] = c THEN tx[c].rows[p]
    ELSE IF read_view[c].set THEN read_view[c].rows[p]
    ELSE perfumes[p]

ItemParses(item) ==
    Converts(item.perfume_id) /\ Converts(item.quantity) /\ Converts(item.price)

CurItem(c) == data[c].items[idx[c]]

PendingOrder(c, d, id) ==
    [id |-> id, user_id |-> c, total_amount |-> d.totalPrice.n,
     shipping_cost |-> d.shippingCost.n, tax_amount |-> d.tax.n,
     payment_method |-> Lower(d.payment_method), status |-> "pending",
     created_at |-> today]

\* lines 251-316: validation, connection, INSERT INTO orders
checkout_begin(c, d) ==
    /\ pc[c] = "idle"
    /\ started < MaxCheckouts
    /\ started' = started + 1
    /\ UNCHANGED <<tables, row_lock, admin_ops, cart_adds, cart_tx, sold_out, side>>
    /\ after_zero' = [after_zero EXCEPT ![c] = {p \in PerfumeIds : sold_out[p]}]
    /\ IF validate(d) # NoResp
       THEN /\ Finished(c, d, 0, validate(d))
            /\ UNCHANGED <<tx, next_order_id>>
       ELSE IF ~(Converts(d.totalPrice) /\ Converts(d.shippingCost) /\ Converts(d.tax))
       THEN \* float() raises while the parameters are built: except Exception
            /\ Finished(c, d, 0, Response(500, "Order failed", "", 0))
            /\ UNCHANGED <<tx, next_order_id>>
       ELSE /\ tx' = [tx EXCEPT ![c] = [NoTx EXCEPT !.orders = {PendingOrder(c, d, next_order_id)}]]
            /\ order_id' = [order_id EXCEPT ![c] = next_order_id]
            /\ next_order_id' = next_order_id + 1
            /\ data' = [data EXCEPT ![c] = d]
            /\ idx' = [idx EXCEPT ![c] = 1]
            /\ pc' = [pc EXCEPT ![c] = "select"]
            /\ UNCHANGED <<read_view, last>>

\* lines 318-339: parse the line item, SELECT the product, check the stock
checkout_select(c) ==
    /\ pc[c] = "select"
    /\ UNCHANGED <<counters, cart_tx, next_order_id, side>>
    /\ LET item == CurItem(c) IN
       IF ~ItemParses(item)
       THEN /\ Rollback(c)
            /\ Finished(c, data[c], idx[c], Response(400, "Invalid item data format", "", 0))
       ELSE IF item.quantity.n <= 0
       THEN /\ CloseUncommitted(c)
            /\ Finished(c, data[c], idx[c], Response(400, "Quantity must be positive", "", 0))
       ELSE IF \/ item.perfume_id.n \notin PerfumeIds
               \/ ~VisibleRow(c, item.perfume_id.n).exists
               \/ VisibleRow(c, item.perfume_id.n).available # 1
       THEN /\ Rollback(c)
            /\ Finished(c, data[c], idx[c],
                        Response(404, "not found or unavailable", "", item.perfume_id.n))
       ELSE IF VisibleRow(c, item.perfume_id.n).quantity < item.quantity.n
       THEN /\ Rollback(c)
            /\ Finished(c, data[c], idx[c],
                        Response(400, "Only n left of", PerfumeName(item.perfume_id.n),
                                 VisibleRow(c, item.perfume_id.n).quantity))
       ELSE /\ read_view' = [read_view EXCEPT ![c] =
                               IF read_view[c].set THEN read_view[c]
                               ELSE [set |-> TRUE, rows |-> perfumes]]
            /\ pc' = [pc EXCEPT ![c] = "update"]
            /\ UNCHANGED <<tables, row_lock, tx, last, data, idx, order_id,
                           sold_out, after_zero>>

\* an order item priced from the catalog row
CatalogOrderItem(c, item) ==
    [order_id |-> order_id[c], line |-> idx[c], perfume_id |-> item.perfume_id.n,
     quantity |-> item.quantity.n, size |-> item.selectedSize,
     unit_price |-> perfumes[item.perfume_id.n].price]

\* lines 322-325 and 341-344: the row INSERT INTO order_items writes
NewOrderItem(c, item) ==
    [order_id |-> order_id[c], line |-> idx[c], perfume_id |-> item.perfume_id.n,
     quantity |-> item.quantity.n, size |-> item.selectedSize, unit_price |-> item.price.n]

StaleDecrement(latest, seen, q) == [latest EXCEPT !.quantity = seen.quantity - q]

FlagDecrement(latest, seen, q) ==
    [latest EXCEPT !.quantity = latest.quantity - q,
                   !.available = IF latest.quantity - q > 0 THEN 1 ELSE 0]

\* UPDATE perfumes SET quantity = quantity - q: applied to the latest version
\* of the row (latest), whatever the earlier SELECT returned (seen)
UpdatedRow(latest, seen, q) == [latest EXCEPT !.quantity = latest.quantity - q]

\* lines 341-346: INSERT INTO order_items, UPDATE perfumes (takes the row lock)
checkout_update(c) ==
    /\ pc[c] = "update"
    /\ LET item == CurItem(c)
           p == item.perfume_id.n
           latest == IF row_lock[p] = c THEN tx[c].rows[p] ELSE perfumes[p]
       IN /\ row_lock[p] \in {NoProc, c}
          /\ tx' = [tx EXCEPT ![c].order_items = @ \cup {NewOrderItem(c, item)},
                              ![c].rows[p] = IF latest.exists
                                             THEN UpdatedRow(latest, VisibleRow(c, p), item.quantity.n)
                                             ELSE @]
          /\ row_lock' = [row_lock EXCEPT ![p] = IF latest.exists THEN c ELSE @]
    /\ idx' = [idx EXCEPT ![c] = IF idx[c] = Len(data[c].items) THEN @ ELSE @ + 1]
    /\ pc' = [pc EXCEPT ![c] = IF idx[c] = Len(data[c].items) THEN "finish" ELSE "select"]
    /\ UNCHANGED <<tables, data, read_view, last, order_id, next_order_id,
                   counters, cart_tx, sold_out, after_zero, side>>

\* the UPDATE waits for a row lock another transaction holds and the server
\* gives up (lock wait timeout, or deadlock victim): except Exception
checkout_lock_error(c) ==
    /\ pc[c] = "update"
    /\ row_lock[CurItem(c).perfume_id.n] \notin {NoProc, c}
    /\ Rollback(c)
    /\ Finished(c, data[c], idx[c], Response(500, "Order failed", "", 0))
    /\ UNCHANGED <<counters, cart_tx, next_order_id, side>>

last4_unstripped(cardNumber) == LastN(cardNumber, 4)

\* line 349
last4(cardNumber) == LastN(RemoveSpaces(cardNumber), 4)

PaymentRows(c, d) ==
    IF Lower(d.payment_method) = "card"
    THEN {[order_id |-> order_id[c], payment_method |-> "card",
           card_last4 |-> last4(d.card_details.cardNumber),
           card_holder_name |-> d.card_details.cardName,
           expiry |-> d.card_details.expiry]}
    ELSE {}

always_paid(payment_method) == "paid"

\* a final status outside the order's status values
final_status_completed(payment_method) ==
    IF payment_method = "card" THEN "completed" ELSE "cod_pending"

\* line 358
final_status(payment_method) == IF payment_method = "card" THEN "paid" ELSE "cod_pending"

PurchasedIds(items) == {items[i].perfume_id.n : i \in 1..Len(items)}

delete_purchased_only(rows, user_id, items) ==
    {r \in rows : ~(r.user_id = user_id /\ r.perfume_id \in PurchasedIds(items))}

\* line 356: DELETE FROM carts WHERE user_id = %s
carts_after_checkout(rows, user_id, items) == {r \in rows : r.user_id # user_id}

\* lines 348-369: payment row, cart deletion, final status, commit
checkout_finish(c) ==
    /\ pc[c] = "finish"
    \* DELETE FROM carts waits for the row locks of the user's own
    \* uncommitted add_to_cart
    /\ \A k \in CartSessions : UserOf(k) = c => cart_tx[k].added = <<>>
    /\ LET d == data[c]
           status == final_status(Lower(d.payment_method))
           t == [tx[c] EXCEPT !.orders = {[o EXCEPT !.status = status] : o \in @}]
       IN /\ Commit(c, t, PaymentRows(c, d), carts_after_checkout(carts, c, d.items))
          /\ Finished(c, d, idx[c], Response(201, "", status, order_id[c]))
    /\ UNCHANGED <<counters, cart_tx, next_order_id, side>>

\* ------------------------------------------------------------ add_to_cart
CartItem(p, q, size) == [perfume_id |-> Num(p), quantity |-> Num(q), size |-> size]

\* an item of the batch without the key 'perfume_id'
NoIdItem == [perfume_id |-> Absent, quantity |-> Num(1), size |-> NULL]

NoCartTx == [open |-> FALSE, items |-> <<>>, added |-> <<>>, errors |-> 0, failed |-> FALSE]

\* the cart row of (user, product, size): COALESCE(size,'') = COALESCE(%s,'')
CartRow(rows, user_id, pid, size) ==
    {r \in rows : r.user_id = user_id /\ r.perfume_id = pid /\ r.size = size}

\* a plain INSERT, as if carts had no unique key
InsertRow(rows, user_id, pid, size, qty) ==
    rows \cup {[user_id |-> user_id, perfume_id |-> pid, size |-> size, quantity |-> qty]}

\* INSERT ... ON DUPLICATE KEY UPDATE quantity = VALUES(quantity) on the
\* unique key (user_id, perfume_id, size)
Upsert(rows, user_id, pid, size, qty) ==
    (rows \ CartRow(rows, user_id, pid, size))
        \cup {[user_id |-> user_id, perfume_id |-> pid, size |-> size, quantity |-> qty]}

\* the stock test without the rows already in the cart
exceeds_ignoring_cart(current_qty, qty, stock) == qty > stock

\* lines 153-154
exceeds_stock(current_qty, qty, stock) == current_qty + qty > stock

\* lines 128-166, the loop over items; acc = [rows, added, errors, failed],
\* rows being the cart as the transaction sees it.  An item without the key
\* 'perfume_id' raises KeyError, which leaves the loop for the handler at
\* line 177.
RECURSIVE add_items(_, _, _)
add_items(user_id, items, acc) ==
    IF items = <<>> THEN acc
    ELSE LET item == Head(items)
             rest == Tail(items)
         IN IF item.perfume_id = Absent
            THEN [acc EXCEPT !.failed = TRUE]
            ELSE IF ~(Converts(item.perfume_id) /\ (Converts(item.quantity) \/ item.quantity = Absent))
            THEN add_items(user_id, rest, [acc EXCEPT !.errors = @ + 1])
            ELSE LET pid == item.perfume_id.n
                     qty == IF item.quantity = Absent THEN 1 ELSE item.quantity.n
                     found == pid \in PerfumeIds /\ perfumes[pid].exists
                              /\ perfumes[pid].available = 1
                 IN IF ~found
                    THEN add_items(user_id, rest, [acc EXCEPT !.errors = @ + 1])
                    ELSE LET stock == perfumes[pid].quantity
                             use_size == IF item.size # NULL THEN item.size ELSE DbSize(pid)
                             current == CartRow(acc.rows, user_id, pid, use_size)
                             current_qty == IF current = {} THEN 0
                                            ELSE (CHOOSE r \in current : TRUE).quantity
                             new_total == current_qty + qty
                         IN IF exceeds_stock(current_qty, qty, stock)
                            THEN add_items(user_id, rest, [acc EXCEPT !.errors = @ + 1])
                            ELSE add_items(user_id, rest,
                                     [acc EXCEPT !.rows = Upsert(@, user_id, pid, use_size, new_total),
                                                 !.added = Append(@,
                                                     [perfume_id |-> pid, size |-> use_size,
                                                      total_in_cart |-> new_total, quantity |-> qty,
                                                      current_qty |-> current_qty, stock |-> stock]),
                                                 !.errors = @])

\* the status line for a batch whose commit succeeded, lines 170-175
batch_status(added, errors) ==
    IF errors > 0 /\ added = 0 THEN 400
    ELSE IF errors > 0 THEN 207 ELSE 201

\* lines 112-166: the statements of the request, all in one transaction
\* whose read view is taken by the first SELECT
add_to_cart(c, items) ==
    /\ cart_adds < MaxCartAdds
    /\ ~cart_tx[c].open
    /\ cart_adds' = cart_adds + 1
    /\ IF items = <<>>
       THEN /\ last' = [NoExchange EXCEPT !.op = "add_to_cart", !.who = UserOf(c),
                                          !.resp = Response(400, "No items provided", "", 0)]
            /\ UNCHANGED cart_tx
       ELSE LET res == add_items(UserOf(c), items,
                           [rows |-> carts, added |-> <<>>, errors |-> 0, failed |-> FALSE])
            IN /\ cart_tx' = [cart_tx EXCEPT ![c] =
                                 [open |-> TRUE, items |-> items, added |-> res.added,
                                  errors |-> res.errors, failed |-> res.failed]]
               /\ UNCHANGED last
    /\ UNCHANGED <<tables, next_order_id, row_lock, session, started, admin_ops,
                   sold_out, after_zero, side>>

\* the rows the transaction wrote, applied to the committed table
RECURSIVE ApplyAdded(_, _, _)
ApplyAdded(rows, user_id, added) ==
    IF added = <<>> THEN rows
    ELSE ApplyAdded(Upsert(rows, user_id, Head(added).perfume_id, Head(added).size,
                           Head(added).total_in_cart),
                    user_id, Tail(added))

\* lines 168-183: conn.commit() and the response, or the rollback and 500
add_to_cart_commit(c) ==
    /\ cart_tx[c].open
    /\ LET t == cart_tx[c]
       IN IF t.failed
          THEN /\ UNCHANGED carts
               /\ last' = [NoExchange EXCEPT !.op = "add_to_cart", !.who = UserOf(c), !.items = t.items,
                                             !.resp = Response(500, "Database error", "", 0)]
          ELSE /\ carts' = ApplyAdded(carts, UserOf(c), t.added)
               /\ last' = [NoExchange EXCEPT !.op = "add_to_cart", !.who = UserOf(c), !.items = t.items,
                                             !.added = t.added, !.errors = t.errors,
                                             !.resp = Response(batch_status(Len(t.added), t.errors),
                                                               "", "", Len(t.added))]
    /\ cart_tx' = [cart_tx EXCEPT ![c] = NoCartTx]
    /\ UNCHANGED <<perfumes, orders, order_items, payment_details, next_order_id, row_lock,
                   session, counters, sold_out, after_zero, side>>

\* lines 221-244: DELETE FROM carts WHERE user_id = %s AND perfume_id = %s; the
\* DELETE waits for the row locks of the user's own uncommitted add_to_cart
remove_from_cart(c, perfume_id) ==
    /\ \A k \in CartSessions : UserOf(k) = c => cart_tx[k].added = <<>>
    /\ LET mine == {r \in carts : r.user_id = c /\ r.perfume_id = perfume_id}
       IN /\ carts' = carts \ mine
          /\ last' = [NoExchange EXCEPT
                         !.op = "remove_from_cart", !.who = c, !.perfume_id = perfume_id,
                         !.removed = mine,
                         !.resp = IF mine = {} THEN Response(404, "Item not in your cart", "", 0)
                                  ELSE Response(200, "", "", 0)]
    /\ UNCHANGED <<perfumes, orders, order_items, payment_details, next_order_id, row_lock,
                   session, counters, cart_tx, sold_out, after_zero, side>>

\* ------------------------------------------------------------------ admin
AdminWrote(p) ==
    /\ sold_out' = [sold_out EXCEPT ![p] = FALSE]
    /\ after_zero' = [k \in Procs |-> after_zero[k] \ {p}]

AdminDone(op, code) ==
    /\ admin_ops < MaxAdminOps
    /\ admin_ops' = admin_ops + 1
    /\ last' = [NoExchange EXCEPT !.op = op, !.who = "admin",
                                  !.resp = Response(code, "", "", 0)]
    /\ UNCHANGED <<carts, orders, payment_details, next_order_id, row_lock,
                   session, started, cart_adds, cart_tx, side>>

\* perfumes.py lines 239-378; quantity_str is the form field 'quantity',
\* price_str the form field 'price', other tells whether another field
\* (name, description, ...) is in the form
update_perfume(perfume_id, quantity_str, price_str, other) ==
    IF perfume_id \notin PerfumeIds \/ ~perfumes[perfume_id].exists
    THEN AdminDone("update_perfume", 404)
         /\ UNCHANGED <<perfumes, order_items, sold_out, after_zero>>
    ELSE IF price_str.t = "str" \/ (price_str.t = "num" /\ price_str.n <= 0)
    THEN AdminDone("update_perfume", 400)
         /\ UNCHANGED <<perfumes, order_items, sold_out, after_zero>>
    ELSE IF quantity_str.t = "str" \/ (quantity_str.t = "num" /\ quantity_str.n < 0)
    THEN AdminDone("update_perfume", 400)
         /\ UNCHANGED <<perfumes, order_items, sold_out, after_zero>>
    ELSE IF quantity_str.t = "absent" /\ price_str.t = "absent" /\ ~other
    THEN AdminDone("update_perfume", 400)
         /\ UNCHANGED <<perfumes, order_items, sold_out, after_zero>>
    ELSE LET existing == perfumes[perfume_id]
             new_quantity == IF quantity_str.t = "num" THEN quantity_str.n ELSE existing.quantity
             new_available == IF new_quantity > 0 THEN 1 ELSE 0
             new_price == IF price_str.t = "num" THEN price_str.n ELSE existing.price
         IN /\ row_lock[perfume_id] = NoProc
            /\ perfumes' = [perfumes EXCEPT ![perfume_id].quantity = new_quantity,
                                            ![perfume_id].available = new_available,
                                            ![perfume_id].price = new_price]
            /\ AdminWrote(perfume_id)
            /\ AdminDone("update_perfume", 200)
            /\ UNCHANGED order_items

\* perfumes.py lines 559-587
delete_perfume(perfume_id) ==
    IF perfume_id \notin PerfumeIds \/ ~perfumes[perfume_id].exists
    THEN \* rowcount = 0: 404 is returned before the commit, the DELETE on
         \* order_items is rolled back when the connection closes
         AdminDone("delete_perfume", 404)
         /\ UNCHANGED <<perfumes, order_items, sold_out, after_zero>>
    ELSE /\ row_lock[perfume_id] = NoProc
         /\ order_items' = {oi \in order_items : oi.perfume_id # perfume_id}
         /\ perfumes' = [perfumes EXCEPT ![perfume_id] = NoRow]
         /\ AdminWrote(perfume_id)
         /\ AdminDone("delete_perfume", 200)

\* ---------------------------------------------------------------- reviews
MaxReviews == 2         \* review rows inserted in one behaviour

MaxCommentLen == 500

Chars(n) == [i \in 1..n |-> "x"]

\* str.strip() of the comments used here: blanks at either end only
RECURSIVE LStrip(_)
LStrip(s) == IF s # <<>> /\ Head(s) = " " THEN LStrip(Tail(s)) ELSE s

RECURSIVE RStrip(_)
RStrip(s) == IF s # <<>> /\ s[Len(s)] = " " THEN RStrip(SubSeq(s, 1, Len(s) - 1)) ELSE s

Strip(s) == RStrip(LStrip(s))

\* perfumes.py lines 779-794; the result is the error message, "" for valid
validate_review_data(rating, comment) ==
    IF rating.t = "str" THEN "Rating must be a valid number between 1 and 5"
    ELSE IF rating.n < 1 \/ rating.n > 5 THEN "Rating must be between 1 and 5"
    ELSE IF comment # <<>> /\ Len(Strip(comment)) > MaxCommentLen
    THEN "Comment too long (maximum 500 characters)"
    ELSE IF comment = <<>> \/ Strip(comment) = <<>> THEN "Comment is required"
    ELSE ""

ReviewDone(user_id, perfume_id, form, code, error) ==
    last' = [NoExchange EXCEPT !.op = "add_review", !.who = user_id, !.perfume_id = perfume_id,
                               !.form = form, !.resp = Response(code, error, "", 0)]

\* the SELECT of line 810 finding nothing, whatever the table holds
never_reviewed(rows, perfume_id, user_id) == FALSE

\* lines 810-815
already_reviewed(rows, perfume_id, user_id) ==
    \E r \in rows : r.perfume_id = perfume_id /\ r.user_id = user_id

\* perfumes.py lines 797-849, for a request that passed verify_customer_token;
\* rating and comment are the form fields
add_review(user_id, perfume_id, rating, comment) ==
    /\ LET form == [rating |-> rating, comment |-> comment] IN
       IF perfume_id \notin PerfumeIds \/ ~perfumes[perfume_id].exists
       THEN /\ ReviewDone(user_id, perfume_id, form, 404, "Perfume not found")
            /\ UNCHANGED <<reviews, next_review_id>>
       ELSE IF already_reviewed(reviews, perfume_id, user_id)
       THEN /\ ReviewDone(user_id, perfume_id, form, 400, "You have already reviewed this perfume")
            /\ UNCHANGED <<reviews, next_review_id>>
       ELSE IF rating = Absent
       THEN \* int(None) raises TypeError, which validate_review_data does not catch
            /\ ReviewDone(user_id, perfume_id, form, 500, "Database error")
            /\ UNCHANGED <<reviews, next_review_id>>
       ELSE IF validate_review_data(rating, Strip(comment)) # ""
       THEN /\ ReviewDone(user_id, perfume_id, form, 400, validate_review_data(rating, Strip(comment)))
            /\ UNCHANGED <<reviews, next_review_id>>
       ELSE /\ next_review_id <= MaxReviews
            /\ reviews' = reviews \cup {[id |-> next_review_id, perfume_id |-> perfume_id,
                                          user_id |-> user_id, rating |-> rating.n,
                                          comment |-> Strip(comment)]}
            /\ next_review_id' = next_review_id + 1
            /\ ReviewDone(user_id, perfume_id, form, 201, "")
    /\ UNCHANGED <<perfumes, shop, offers>>

\* ------------------------------------------------------------ the system
AdminSessions == {"a1", "a2"}

NoOfferTx == [open |-> FALSE, perfume_id |-> 0, row |-> <<>>]

BadItem == [perfume_id |-> Num(1), quantity |-> Str("two"), selectedSize |-> NULL,
            price |-> Num(10)]

Init ==
    /\ perfumes \in [PerfumeIds -> {[exists |-> TRUE, quantity |-> q, available |-> 1,
                                       price |-> 15] : q \in 1..MaxStock}]
    /\ carts = {}
    /\ orders = {}
    /\ order_items = {}
    /\ payment_details = {}
    /\ next_order_id = 1
    /\ row_lock = [p \in PerfumeIds |-> NoProc]
    /\ pc = [c \in Procs |-> "idle"]
    /\ data = [c \in Procs |-> NoData]
    /\ order_id = [c \in Procs |-> 0]
    /\ idx = [c \in Procs |-> 0]
    /\ read_view = [c \in Procs |-> NoView]
    /\ tx = [c \in Procs |-> NoTx]
    /\ last = NoExchange
    /\ started = 0
    /\ admin_ops = 0
    /\ cart_adds = 0
    /\ cart_tx = [c \in CartSessions |-> NoCartTx]
    /\ clock = 0
    /\ tokens = {}
    /\ reviews = {}
    /\ next_review_id = 1
    /\ discounts = {}
    /\ next_discount_id = 1
    /\ today = 0
    /\ offer_tx = [a \in AdminSessions |-> NoOfferTx]
    /\ overlapped = FALSE
    /\ favorites = {}
    /\ sold_out = [p \in PerfumeIds |-> FALSE]
    /\ after_zero = [c \in Procs |-> {}]

\* concurrent checkouts alone, over every exit path of the handler
ItemLists ==
    { <<Item(1, 1)>>, <<Item(1, 2)>>,
      <<Item(1, 1), Item(2, 1)>>, <<Item(2, 1), Item(1, 2)>>,
      <<Item(2, 1), Item(1, 0)>>, <<Item(1, 1), BadItem>>, <<Item(UnknownId, 1)>> }

CheckoutBodies ==
    {Body("cod", items, Num(20)) : items \in ItemLists}
        \cup {Body("card", <<Item(1, 1)>>, Num(10)),
              Body("cod", <<Item(1, 1)>>, Str("abc")),
              [Body("cod", <<Item(1, 1)>>, Num(20)) EXCEPT !.keys = @ \ {"shippingCost"}]}

Next ==
    \/ \E c \in Procs, d \in CheckoutBodies : checkout_begin(c, d)
    \/ \E c \in Procs : checkout_select(c)
    \/ \E c \in Procs : checkout_update(c)
    \/ \E c \in Procs : checkout_lock_error(c)
    \/ \E c \in Procs : checkout_finish(c)

Spec == Init /\ [][Next]_vars

\* checkouts while the admin edits the catalog
ShopBodies ==
    { Body("cod", <<Item(1, 1)>>, Num(10)),
      Body("card", <<Item(1, 2)>>, Num(20)),
      Body("cod", <<Item(2, 1), Item(1, 1)>>, Num(10)) }

QuantityInputs == {Absent, Num(0), Num(MaxStock)}

\* the form field 'price': not sent, not positive, a new price
PriceInputs == {Absent, Num(0), Num(25)}

NextAdmin ==
    \/ \E c \in Procs, d \in ShopBodies : checkout_begin(c, d)
    \/ \E c \in Procs : checkout_select(c)
    \/ \E c \in Procs : checkout_update(c)
    \/ \E c \in Procs : checkout_lock_error(c)
    \/ \E c \in Procs : checkout_finish(c)
    \/ \E p \in PerfumeIds, q \in QuantityInputs, pr \in PriceInputs, other \in BOOLEAN :
          update_perfume(p, q, pr, other)
    \/ \E p \in PerfumeIds : delete_perfume(p)

SpecAdmin == Init /\ [][NextAdmin]_vars

\* one checkout while customers fill their carts
CartBatches ==
    { <<CartItem(1, 1, NULL)>>,
      <<CartItem(1, 1, NULL), CartItem(2, 1, "100ml")>>,
      <<CartItem(2, 1, NULL), CartItem(UnknownId, 1, NULL)>>,
      <<CartItem(1, MaxStock, NULL)>>,
      <<CartItem(1, MaxStock + 1, NULL)>>,
      <<CartItem(1, 1, NULL), NoIdItem>> }

NextCart ==
    \/ started = 0 /\ \E c \in Procs, d \in ShopBodies : checkout_begin(c, d)
    \/ \E c \in Procs : checkout_select(c)
    \/ \E c \in Procs : checkout_update(c)
    \/ \E c \in Procs : checkout_finish(c)
    \/ \E c \in Procs, items \in CartBatches : add_to_cart(c, items)
    \/ \E c \in Procs : add_to_cart_commit(c)

SpecCart == Init /\ [][NextCart]_vars

\* one checkout request over a wide range of bodies
KeySets ==
    {Range(required)} \cup {Range(required) \ {f} : f \in Range(required)}
        \cup {Range(required) \ {"tax", "shippingCost"}}

PaymentMethods == {"cod", "card", "COD", "Card", "upi"}

Shippings ==
    { GoodShipping,
      [GoodShipping EXCEPT !["zip"] = <<" ">>],
      [GoodShipping EXCEPT !["firstName"] = <<>>, !["email"] = <<>>] }

CardSpaced == <<"4","1","1","1"," ","1","1","1","1"," ","1","1","1","1"," ","1","2"," ","3","4">>
CardTrailing == <<"5","5","0","0","0","0","0","0","0","0","9","8","7"," ">>
Card12 == <<"4","1","1","1","1","1","1","1","1","1","1","1">>
CardAlpha == <<"a","b","c","d","e","f","g","h","i","j","k","l","m","n">>

Cards ==
    { GoodCard, NoCard,
      [GoodCard EXCEPT !.cardNumber = CardSpaced],
      [GoodCard EXCEPT !.cardNumber = CardTrailing, !.cvv = <<"1","2","3","4">>],
      [GoodCard EXCEPT !.cardNumber = Card12],
      [GoodCard EXCEPT !.cardNumber = CardAlpha],
      [GoodCard EXCEPT !.cardName = <<" ">>],
      [GoodCard EXCEPT !.expiry = <<>>],
      [GoodCard EXCEPT !.cvv = <<"1","2">>],
      [GoodCard EXCEPT !.cvv = <<"1","2","a">>],
      [GoodCard EXCEPT !.cardNumber = Card12, !.cvv = <<>>] }

WideItemLists ==
    { <<>>, <<Item(1, 1)>>, <<BadItem>>, <<Item(1, 0)>>, <<Item(UnknownId, 1)>>,
      <<Item(2, 1), Item(1, 3)>> }

WideBodies ==
    { [keys |-> ks, shipping |-> sh, payment_method |-> pm, items |-> items,
       totalPrice |-> Num(10), tax |-> Num(1), shippingCost |-> Num(5), card_details |-> cd] :
      ks \in KeySets, sh \in Shippings, pm \in PaymentMethods,
      items \in WideItemLists, cd \in Cards }

NextInputs ==
    \/ started = 0 /\ \E c \in Procs, d \in WideBodies : checkout_begin(c, d)
    \/ \E c \in Procs : checkout_select(c)
    \/ \E c \in Procs : checkout_update(c)
    \/ \E c \in Procs : checkout_finish(c)

SpecInputs == Init /\ [][NextInputs]_vars

\* ----------------------------------------------------------- properties
RECURSIVE SoldIn(_, _)
\* the total quantity of product p over a set of order_items rows
SoldIn(rows, p) ==
    IF rows = {} THEN 0
    ELSE LET r == CHOOSE x \in rows : TRUE
         IN (IF r.perfume_id = p THEN r.quantity ELSE 0) + SoldIn(rows \ {r}, p)

\* session c receives the response to its checkout request in this step
Responds(c) ==
    /\ last'.op = "checkout"
    /\ last'.who = c
    /\ pc'[c] = "idle"
    /\ pc[c] # "idle" \/ started' # started

\* C1: under any interleaving of concurrent checkouts the committed stock
\* of a product is never below 0 (no more is sold than was in stock).
C1_StockNeverNegative == \A p \in PerfumeIds : perfumes[p].quantity >= 0

\* C2: a committing checkout lowers each product's committed stock by exactly
\* the quantities of its order items for that product, and every other step
\* (a failed checkout among them) leaves the stock as it was; so the stock
\* is the initial stock minus the sum over the committed order items.
C2_StockConservation ==
    [][\A p \in PerfumeIds :
          perfumes'[p].quantity
              = perfumes[p].quantity - SoldIn(order_items' \ order_items, p)]_vars

C2_Witness ==
    /\ Cardinality(orders) >= 2
    /\ \E p \in PerfumeIds : SoldIn(order_items, p) >= 2
    /\ last.op = "checkout" /\ last.resp.code = 201

\* C3: a checkout that ends with an error response (400, 404, 500) leaves
\* every committed table as it was, on every exit path, and nothing of its
\* transaction remains pending.
C3_ErrorsChangeNothing ==
    [][\A c \in Procs :
          (Responds(c) /\ last'.resp.code \in {400, 404, 500})
              => /\ UNCHANGED tables
                 /\ tx'[c] = NoTx
                 /\ \A p \in PerfumeIds : row_lock'[p] # c]_vars

\* the second line item has a non-positive quantity: the header, the first
\* order item and its stock decrement were written, no rollback call is made
C3_Witness ==
    /\ last.op = "checkout"
    /\ last.resp = Response(400, "Quantity must be positive", "", 0)
    /\ last.idx = 2

\* C4: once a successful checkout has taken a product's stock to 0 (and the
\* row was not written since), the next checkout, on reaching a well-formed
\* line item for >= 1 of it, is rejected with 400 "Only 0 left of <name>"
\* (not with the 404), and no order row is created.
C4_SoldOutRejected ==
    [][\A c \in Procs :
          (/\ pc[c] = "select"
           /\ pc'[c] # "select"
           /\ ItemParses(CurItem(c))
           /\ CurItem(c).quantity.n >= 1
           /\ CurItem(c).perfume_id.n \in after_zero[c])
              => /\ last'.who = c
                 /\ last'.resp = Response(400, "Only n left of",
                                          PerfumeName(CurItem(c).perfume_id.n), 0)
                 /\ orders' = orders
                 /\ tx'[c] = NoTx]_vars

C4_Witness ==
    /\ last.op = "checkout"
    /\ last.resp.code = 400
    /\ last.resp.error = "Only n left of"
    /\ last.resp.n = 0
    /\ last.idx >= 1
    /\ last.data.items[last.idx].perfume_id.n \in after_zero[last.who]

PaymentsOf(o) == {pd \in payment_details : pd.order_id = o.id}

\* C5: every committed order with payment_method cod has status cod_pending
\* and no payment_details row; every committed order with payment_method
\* card has status paid and exactly one payment_details row.
C5_StatusAndPaymentRow ==
    \A o \in orders :
        /\ o.payment_method \in {"card", "cod"}
        /\ o.payment_method = "cod"
              => o.status = "cod_pending" /\ PaymentsOf(o) = {}
        /\ o.payment_method = "card"
              => o.status = "paid" /\ Cardinality(PaymentsOf(o)) = 1

C5_Witness ==
    /\ \E o \in orders : o.payment_method = "cod"
    /\ \E o \in orders : o.payment_method = "card"

NotSpace(ch) == ch # " "

OrderColumns ==
    {"id", "user_id", "total_amount", "shipping_cost", "tax_amount", "payment_method", "status",
     "created_at"}

PaymentColumns == {"order_id", "payment_method", "card_last4", "card_holder_name", "expiry"}

\* C6: the card reference stored for a successful card checkout is exactly
\* the last 4 characters of the submitted card number with its spaces
\* removed; no table has a column for the rest of the number or the CVV.
C6_CardLast4 ==
    /\ \A pd \in payment_details :
          /\ last.op = "checkout" /\ last.resp.code = 201 /\ last.resp.n = pd.order_id
          /\ LET s == SelectSeq(last.data.card_details.cardNumber, NotSpace)
             IN /\ Len(pd.card_last4) = 4
                /\ \A i \in 1..4 : pd.card_last4[i] = s[Len(s) - 4 + i]
          /\ DOMAIN pd = PaymentColumns
    /\ \A o \in orders : DOMAIN o = OrderColumns
    /\ (last.op = "checkout" /\ last.resp.code = 201
            /\ Lower(last.data.payment_method) = "card")
          => \E pd \in payment_details : pd.order_id = last.resp.n

C6_Witness ==
    /\ last.op = "checkout"
    /\ last.resp.code = 201
    /\ last.data.card_details.cardNumber = CardSpaced
    /\ payment_details # {}

CardInvalid(cd) ==
    \/ \E k \in Range(card_keys) : IsBlank(cd[k])
    \/ Len(SelectSeq(cd.cardNumber, NotSpace)) \notin 13..19
    \/ ~(Len(cd.cvv) \in {3, 4} /\ \A i \in 1..Len(cd.cvv) : cd.cvv[i] \in Digits)

BadPaymentMethod(d) == Lower(d.payment_method) \notin {"card", "cod"}

CardErrors == {"Card field is required", "Invalid card number", "CVV must be 3 or 4 digits"}

EarlyErrors ==
    {"Missing required field", "payment_method must be 'card' or 'cod'",
     "Items must be a non-empty list", "Shipping field is required and cannot be empty"}

\* C7 as stated: a request with all top-level fields, an empty shipping
\* field and an invalid payment_method gets the shipping-field error.
C7_ShippingBeforePayment ==
    (/\ last.op = "checkout"
     /\ MissingFields(last.data) = {}
     /\ EmptyShipKeys(last.data) # {}
     /\ BadPaymentMethod(last.data))
        => last.resp.error = "Shipping field is required and cannot be empty"

\* C7 as amended: the error returned is that of the first violated stage in
\* the order missing top-level field, invalid payment method, empty item
\* list, empty shipping field, invalid card field (card only), line items.
C7_ValidationOrder ==
    last.op = "checkout" =>
        LET d == last.data
            e == last.resp.error
        IN IF MissingFields(d) # {}
           THEN e = "Missing required field"
                /\ last.resp.arg = FirstIn(required, MissingFields(d))
           ELSE IF BadPaymentMethod(d)
           THEN e = "payment_method must be 'card' or 'cod'"
           ELSE IF d.items = <<>>
           THEN e = "Items must be a non-empty list"
           ELSE IF EmptyShipKeys(d) # {}
           THEN e = "Shipping field is required and cannot be empty"
                /\ last.resp.arg = FirstIn(ship_keys, EmptyShipKeys(d))
           ELSE IF Lower(d.payment_method) = "card" /\ CardInvalid(d.card_details)
           THEN e \in CardErrors
           ELSE e \notin EarlyErrors \cup CardErrors

C7_Witness ==
    /\ last.op = "checkout"
    /\ MissingFields(last.data) = {}
    /\ EmptyShipKeys(last.data) # {}
    /\ BadPaymentMethod(last.data)
    /\ last.resp = Response(400, "payment_method must be 'card' or 'cod'", "", 0)

\* C8: when a checkout of user U commits, no cart row of U remains, whether
\* or not its product was purchased, and the cart rows of every other user
\* are the same as before.
C8_CartCleared ==
    [][\A c \in Procs :
          (Responds(c) /\ last'.resp.code = 201)
              => /\ \A r \in carts' : r.user_id # c
                 /\ {r \in carts' : r.user_id # c} = {r \in carts : r.user_id # c}]_vars

C8_Witness ==
    /\ last.op = "checkout"
    /\ last.resp.code = 201
    /\ \E r \in last.removed : r.perfume_id \notin PurchasedIds(last.data.items)
    /\ \E r \in carts : r.user_id # last.who

RECURSIVE ItemsTotal(_)
\* the sum of quantity x unit_price over a set of order_items rows
ItemsTotal(rows) ==
    IF rows = {} THEN 0
    ELSE LET r == CHOOSE x \in rows : TRUE
         IN r.quantity * r.unit_price + ItemsTotal(rows \ {r})

\* C9: the total_amount of every committed order equals the sum of
\* quantity x unit_price over its order items.
C9_TotalIsSumOfItems ==
    \A o \in orders :
        o.total_amount = ItemsTotal({oi \in order_items : oi.order_id = o.id})

\* C10: an order item, once committed, is never modified or deleted by any
\* later operation.
C10_OrderItemsImmutable == [][order_items \subseteq order_items']_vars

\* C11: in every committed state each product's available flag is derived
\* from its stock: available = 1 exactly when quantity > 0 (also after a
\* checkout has decremented the stock to 0).
C11_AvailableDerived ==
    \A p \in PerfumeIds :
        perfumes[p].exists => (perfumes[p].available = 1 <=> perfumes[p].quantity > 0)

\* ------------------------------------------------- properties of the cart
\* session c issues its add_to_cart statements in this step
AddReads(c) == ~cart_tx[c].open /\ cart_tx'[c].open

\* the add_to_cart request of session c commits and responds in this step
AddResponds(c) == cart_tx[c].open /\ ~cart_tx'[c].open

AddSucceeded == last'.op = "add_to_cart" /\ last'.resp.code \in {201, 207}

\* the quantity of the cart row of a key, 0 when there is none
QtyInCart(rows, user_id, pid, size) ==
    IF CartRow(rows, user_id, pid, size) = {} THEN 0
    ELSE (CHOOSE r \in CartRow(rows, user_id, pid, size) : TRUE).quantity

Entries(added) == {added[i] : i \in 1..Len(added)}

\* the size an item of the batch is stored under
KeySize(item) == IF item.size # NULL THEN item.size ELSE DbSize(item.perfume_id.n)

\* the items of a batch that name an available product with a number
Checkable(items) ==
    {it \in Range(items) : /\ it.perfume_id.t = "num" /\ it.quantity.t = "num"
                           /\ it.perfume_id.n \in PerfumeIds
                           /\ perfumes[it.perfume_id.n].exists
                           /\ perfumes[it.perfume_id.n].available = 1}

\* an item is rejected exactly when existing + requested exceeds the stock
\* the request reads, and is otherwise written as existing + requested
StockRule ==
    \A c \in Procs :
        (AddReads(c) /\ ~cart_tx'[c].failed) =>
            \A it \in Checkable(cart_tx'[c].items) :
                LET pid == it.perfume_id.n
                    existing == QtyInCart(carts, c, pid, KeySize(it))
                    writes == {e \in Entries(cart_tx'[c].added) :
                                  e.perfume_id = pid /\ e.size = KeySize(it)}
                IN IF existing + it.quantity.n > perfumes[pid].quantity
                   THEN writes = {}
                   ELSE /\ writes # {}
                        /\ \A e \in writes : e.total_in_cart = existing + it.quantity.n

\* a commit writes the rows of the added items and no other row
CommitRule ==
    \A c \in Procs :
        AddResponds(c) =>
            \A r \in carts' \ carts :
                /\ r.user_id = c
                /\ \E e \in Entries(last'.added) :
                       /\ e.perfume_id = r.perfume_id /\ e.size = r.size
                       /\ e.total_in_cart = r.quantity

\* C12 (as stated): add_to_cart rejects an item whenever existing + requested
\* exceeds the product's stock and otherwise upserts existing + requested, so
\* that right after a successful add the cart quantity of each added key is
\* at most the product's committed stock at that moment.
C12_CartWithinStock ==
    [][/\ StockRule
       /\ CommitRule
       /\ \A c \in Procs :
              (AddResponds(c) /\ AddSucceeded) =>
                  \A e \in Entries(last'.added) :
                      QtyInCart(carts', c, e.perfume_id, e.size)
                          <= perfumes'[e.perfume_id].quantity]_vars

\* C12 (amended): the same rule, and right after a successful add the cart
\* quantity of each added key is at most the stock the request read for the
\* product; the committed stock may have been lowered since by a checkout
\* that committed between the request's SELECT and its commit.
C12_CartWithinStockRead ==
    [][/\ StockRule
       /\ CommitRule
       /\ \A c \in Procs :
              (AddResponds(c) /\ AddSucceeded) =>
                  \A e \in Entries(last'.added) :
                      QtyInCart(carts', c, e.perfume_id, e.size) <= e.stock]_vars

\* a successful add onto an existing row, and a rejected add in the same run
C12_Witness ==
    /\ last.op = "add_to_cart"
    /\ last.resp.code = 201
    /\ \E e \in Entries(last.added) :
           /\ e.current_qty > 0
           /\ QtyInCart(carts, last.who, e.perfume_id, e.size) = e.total_in_cart
           /\ e.total_in_cart = e.stock

\* C13: two sequential adds of q for the same key, nothing in between, leave
\* exactly one cart row for the key, with quantity 2q.
C13_AddIsAdditive ==
    [][\A c \in Procs :
          (AddResponds(c) /\ AddSucceeded) =>
              \A e \in Entries(last'.added) :
                  (/\ e.current_qty = e.quantity
                   /\ QtyInCart(carts, c, e.perfume_id, e.size) = e.current_qty)
                      => /\ Cardinality(CartRow(carts', c, e.perfume_id, e.size)) = 1
                         /\ QtyInCart(carts', c, e.perfume_id, e.size) = 2 * e.quantity]_vars

C13_Witness ==
    /\ last.op = "add_to_cart"
    /\ last.resp.code \in {201, 207}
    /\ \E e \in Entries(last.added) :
           /\ e.quantity > 0
           /\ e.current_qty = e.quantity
           /\ CartRow(carts, last.who, e.perfume_id, e.size)
                  = {[user_id |-> last.who, perfume_id |-> e.perfume_id, size |-> e.size,
                      quantity |-> 2 * e.quantity]}

\* C14: a batch add returns 201 when every item was added, 207 when some
\* were added and some rejected, 400 when every item was rejected.
C14_BatchStatus ==
    (last.op = "add_to_cart" /\ last.items # <<>>) =>
        last.resp.code = IF Len(last.added) = Len(last.items) THEN 201
                         ELSE IF Len(last.added) > 0 THEN 207
                         ELSE 400

\* ------------------------------------------------- requests with a token
MaxClock == 2           \* the clock runs from 0 to MaxClock

\* auth.py lines 216-249, for a user whose password matches
customer_login(user_id) ==
    /\ tokens' = tokens \cup {Token(2, user_id, clock + TokenLifetime)}
    /\ UNCHANGED <<tables, next_order_id, row_lock, session, counters, cart_tx, last,
                   sold_out, after_zero, clock, reviews, next_review_id, offers, favorites>>

\* auth.py lines 176-209
admin_login ==
    /\ tokens' = tokens \cup {Token(1, "admin", clock + TokenLifetime)}
    /\ UNCHANGED <<tables, next_order_id, row_lock, session, counters, cart_tx, last,
                   sold_out, after_zero, clock, reviews, next_review_id, offers, favorites>>

\* an hour passes
Tick ==
    /\ clock < MaxClock
    /\ clock' = clock + 1
    /\ UNCHANGED <<tables, next_order_id, row_lock, session, counters, cart_tx, last,
                   sold_out, after_zero, tokens, reviews, next_review_id, offers, favorites>>

\* a verifier returned an error: the route returns it at once
Rejected(route, h, verdict) ==
    /\ last' = [NoExchange EXCEPT !.op = route, !.auth = h, !.at = clock,
                                  !.resp = Response(verdict.code, verdict.error, "", 0)]
    /\ UNCHANGED <<tables, next_order_id, row_lock, session, counters, cart_tx,
                   sold_out, after_zero, side>>

\* POST /cart: cart.py lines 62-71 and 110-112
post_cart(h, items) ==
    IF verify_customer_token(h, clock) # Passed
    THEN Rejected("POST /cart", h, verify_customer_token(h, clock))
    ELSE add_to_cart(h.token.user_id, items)

\* PUT /admin/perfumes: perfumes.py lines 238-241
put_admin_perfumes(h, perfume_id, quantity_str) ==
    IF verify_admin_token(h, clock) # Passed
    THEN Rejected("PUT /admin/perfumes", h, verify_admin_token(h, clock))
    ELSE update_perfume(perfume_id, quantity_str, Absent, FALSE)

\* GET /dashboard: auth.py lines 256-270
dashboard(h) ==
    IF auth_verify_customer_token(h, clock) # Passed
    THEN Rejected("GET /dashboard", h, auth_verify_customer_token(h, clock))
    ELSE /\ last' = [NoExchange EXCEPT
                        !.op = "GET /dashboard", !.auth = h, !.at = clock,
                        !.resp = IF h.token.role_id \in {1, 2}
                                 THEN Response(200, "", "", h.token.role_id)
                                 ELSE Response(403, "Unknown role", "", 0)]
         /\ UNCHANGED <<tables, next_order_id, row_lock, session, counters, cart_tx,
                        sold_out, after_zero, side>>

Schemes ==
    { <<>>, <<" ">>,
      <<"B", "e", "a", "r", "e", "r", " ">>,
      <<"B", "E", "A", "R", "E", "R", " ">>,
      <<"B", "e", "a", "r", "e", "r">> }

\* an issued token with another role, signed by somebody else
Forged == {[t EXCEPT !.key = "attacker", !.role_id = 3 - t.role_id] : t \in tokens}

Headers ==
    {NoHeader} \cup {Header(s, t) : s \in Schemes, t \in tokens}
               \cup {Header(<<>>, t) : t \in Forged \cup {Garbage}}

\* each of the two users logs in once
NextAuth ==
    \/ (\A t \in tokens : t.role_id # 2) /\ customer_login("u1")
    \/ (\A t \in tokens : t.role_id # 1) /\ admin_login
    \/ Tick
    \/ \E h \in Headers : post_cart(h, <<CartItem(1, 1, NULL)>>)
    \/ \E c \in Procs : add_to_cart_commit(c)
    \/ \E h \in Headers : put_admin_perfumes(h, 1, Num(0))
    \/ \E h \in Headers : dashboard(h)

SpecAuth == Init /\ [][NextAuth]_vars

\* ------------------------------------------------ properties of the tokens
Raw(t) == Header(<<>>, t)

Expired == Verdict(401, "Token expired")

Invalid == Verdict(401, "Invalid token")

CustomerRoutes == {"POST /cart"}

AdminRoutes == {"PUT /admin/perfumes"}

\* what the claim says a route answers to the raw token t at time now;
\* nothing is said of the very instant of expiry
Foretold(route, t, now, resp) ==
    IF now > t.exp THEN resp.code = 401 /\ resp.error = "Token expired"
    ELSE IF now < t.exp
    THEN resp.code = 403
         /\ \/ route \in CustomerRoutes /\ t.role_id = 1
            \/ route \in AdminRoutes /\ t.role_id = 2
    ELSE TRUE

\* C15: an unexpired token issued at login is accepted by the routes of its
\* role and answered 403 by the routes of the other role; once expired it is
\* answered 401 'Token expired', and a forged or malformed token is answered
\* 401 'Invalid token'.
C15_TokenRoundTrip ==
    /\ \A t \in tokens :
           /\ clock < t.exp =>
                  /\ t.role_id = 2 => /\ verify_customer_token(Raw(t), clock) = Passed
                                      /\ verify_admin_token(Raw(t), clock).code = 403
                  /\ t.role_id = 1 => /\ verify_admin_token(Raw(t), clock) = Passed
                                      /\ verify_customer_token(Raw(t), clock).code = 403
           /\ clock > t.exp =>
                  /\ verify_customer_token(Raw(t), clock) = Expired
                  /\ verify_admin_token(Raw(t), clock) = Expired
    /\ \A t \in Forged \cup {Garbage} :
           /\ verify_customer_token(Raw(t), clock) = Invalid
           /\ verify_admin_token(Raw(t), clock) = Invalid
    /\ Expired # Invalid
    /\ (/\ last.op \in CustomerRoutes \cup AdminRoutes
        /\ last.auth.present
        /\ last.auth.scheme = <<>>
        /\ last.auth.token \in tokens)
           => Foretold(last.op, last.auth.token, last.at, last.resp)

\* a customer's token that put a row in the cart is answered 'Token expired'
\* on the same route later
C15_Witness ==
    /\ last.op = "POST /cart"
    /\ last.auth.present
    /\ last.auth.scheme = <<>>
    /\ last.auth.token \in tokens
    /\ last.auth.token.role_id = 2
    /\ last.at > last.auth.token.exp
    /\ last.resp = Response(401, "Token expired", "", 0)
    /\ \E r \in carts : r.user_id = last.auth.token.user_id

BearerSchemes ==
    { <<"B", "e", "a", "r", "e", "r", " ">>, <<"B", "E", "A", "R", "E", "R", " ">> }

Routes == {"POST /cart", "PUT /admin/perfumes", "GET /dashboard"}

\* the exchange recorded in this step carried a bearer scheme
BearerExchange ==
    /\ last' # last
    /\ last'.op \in Routes
    /\ last'.auth.present
    /\ last'.auth.scheme \in BearerSchemes

\* C16: on every protected route a header value that begins with 'Bearer '
\* (in any case) is answered 401, also when the token after it is valid,
\* unexpired and of the required role; the handler does not run and nothing
\* changes.
C16_BearerRejected ==
    /\ [](\A h \in Headers :
              (h.present /\ h.scheme \in BearerSchemes) =>
                  /\ verify_customer_token(h, clock).code = 401
                  /\ verify_admin_token(h, clock).code = 401
                  /\ auth_verify_customer_token(h, clock).code = 401)
    /\ [][BearerExchange =>
              /\ last'.resp.code = 401
              /\ UNCHANGED <<tables, cart_tx, counters, row_lock, session>>]_vars

\* a bearer header around an unexpired token of the required role was
\* answered 401
C16_Witness ==
    /\ last.op = "PUT /admin/perfumes"
    /\ last.auth.present
    /\ last.auth.scheme = <<"B", "E", "A", "R", "E", "R", " ">>
    /\ last.auth.token \in tokens
    /\ last.auth.token.role_id = 1
    /\ last.at < last.auth.token.exp
    /\ last.resp.code = 401

\* ------------------------------------------------------- reviews: system
Ratings == {Num(1), Num(5), Num(6), Str("five"), Absent}

Comments == { <<"o", "k">>, <<" ", "f", "i", "n", "e", " ">>, <<" ">>,
              Chars(MaxCommentLen + 1) }

\* the forms posted: at most one of the two fields is not a plain valid one
ReviewForms ==
    {f \in [rating : Ratings, comment : Comments] :
        f.rating = Num(5) \/ f.comment = <<"o", "k">>}

NextReviews ==
    \E c \in Procs, p \in PerfumeIds \cup {UnknownId}, f \in ReviewForms :
        add_review(c, p, f.rating, f.comment)

SpecReviews == Init /\ [][NextReviews]_vars

ReviewsOf(rows, p, c) == {r \in rows : r.perfume_id = p /\ r.user_id = c}

MaxDay == 1             \* CURRENT_DATE() runs from day 0 to day MaxDay
MaxOffers == 2          \* discount rows inserted in one behaviour

\* the rows WHERE perfume_id = %s AND end_date > CURRENT_DATE()
ActiveOffersStrict(rows, perfume_id, day) ==
    {d \in rows : d.perfume_id = perfume_id /\ d.end_date > day}

\* the rows WHERE perfume_id = %s AND end_date >= CURRENT_DATE()
ActiveOffers(rows, perfume_id, day) ==
    {d \in rows : d.perfume_id = perfume_id /\ d.end_date >= day}

\* an INSERT refused when the product has an active discount
InsertDiscountUnique(rows, row, day) ==
    IF ActiveOffers(rows, row.perfume_id, day) # {} THEN rows ELSE rows \cup {row}

\* INSERT INTO discounts: the table has no key over (perfume_id, dates)
InsertDiscount(rows, row, day) == rows \cup {row}

OfferDone(op, who, perfume_id, code, error) ==
    last' = [NoExchange EXCEPT !.op = op, !.who = who, !.perfume_id = perfume_id,
                               !.resp = Response(code, error, "", 0)]

\* lines 392-396 and 440-446: the error for the form field, "" when it is fine
DiscountError(discount_percentage) ==
    IF discount_percentage.t = "str" THEN "Invalid discount percentage"
    ELSE IF discount_percentage.n <= 0 \/ discount_percentage.n >= 100
    THEN "Discount percentage must be between 0 and 100"
    ELSE ""

\* the transaction of another session holds the lock of an uncommitted
\* discount row of the product
OfferRowLocked(perfume_id) ==
    \E a \in AdminSessions : offer_tx[a].open /\ offer_tx[a].perfume_id = perfume_id

\* perfumes.py lines 381-417: validation, the two SELECTs and the INSERT of
\* admin session a; the form fields are id, discount_percentage, end_date
add_special_offer(a, id, discount_percentage, end_date) ==
    /\ ~offer_tx[a].open
    /\ IF id = Absent \/ discount_percentage = Absent \/ end_date = Absent
       THEN /\ OfferDone("add_special_offer", a, 0, 400,
                         "Perfume ID, discount percentage, and end date are required")
            /\ UNCHANGED <<discounts, next_discount_id, today, offer_tx, overlapped>>
       ELSE IF DiscountError(discount_percentage) # ""
       THEN /\ OfferDone("add_special_offer", a, id.n, 400, DiscountError(discount_percentage))
            /\ UNCHANGED <<discounts, next_discount_id, today, offer_tx, overlapped>>
       ELSE IF id.n \notin PerfumeIds \/ ~perfumes[id.n].exists
       THEN /\ OfferDone("add_special_offer", a, id.n, 404, "Perfume not found")
            /\ UNCHANGED <<discounts, next_discount_id, today, offer_tx, overlapped>>
       ELSE IF ActiveOffers(discounts, id.n, today) # {}
       THEN /\ OfferDone("add_special_offer", a, id.n, 400,
                         "Perfume already has an active special offer")
            /\ UNCHANGED <<discounts, next_discount_id, today, offer_tx, overlapped>>
       ELSE /\ next_discount_id <= MaxOffers
            /\ offer_tx' = [offer_tx EXCEPT ![a] =
                               [open |-> TRUE, perfume_id |-> id.n,
                                row |-> [id |-> next_discount_id, perfume_id |-> id.n,
                                         discount_percentage |-> discount_percentage.n,
                                         start_date |-> today, end_date |-> end_date.n]]]
            /\ next_discount_id' = next_discount_id + 1
            /\ overlapped' = (overlapped \/ \E b \in AdminSessions \ {a} : offer_tx[b].open)
            /\ UNCHANGED <<discounts, today, last>>
    /\ UNCHANGED <<perfumes, shop, reviews, next_review_id>>

\* perfumes.py lines 419-427: conn.commit() and the 201
add_special_offer_commit(a) ==
    /\ offer_tx[a].open
    /\ discounts' = InsertDiscount(discounts, offer_tx[a].row, today)
    /\ offer_tx' = [offer_tx EXCEPT ![a] = NoOfferTx]
    /\ OfferDone("add_special_offer", a, offer_tx[a].perfume_id, 201, "")
    /\ UNCHANGED <<perfumes, shop, reviews, next_review_id, next_discount_id, today, overlapped>>

\* perfumes.py lines 431-487
update_special_offer(perfume_id, discount_percentage, end_date) ==
    /\ IF discount_percentage = Absent /\ end_date = Absent
       THEN /\ OfferDone("update_special_offer", "admin", perfume_id, 400,
                         "Discount percentage or end date is required")
            /\ UNCHANGED discounts
       ELSE IF discount_percentage # Absent /\ DiscountError(discount_percentage) # ""
       THEN /\ OfferDone("update_special_offer", "admin", perfume_id, 400,
                         DiscountError(discount_percentage))
            /\ UNCHANGED discounts
       ELSE IF ActiveOffers(discounts, perfume_id, today) = {}
       THEN /\ OfferDone("update_special_offer", "admin", perfume_id, 404,
                         "No active special offer found for this perfume")
            /\ UNCHANGED discounts
       ELSE \* the UPDATE waits for the locks of uncommitted rows of the product
            /\ ~OfferRowLocked(perfume_id)
            /\ discounts' =
                   {IF d \in ActiveOffers(discounts, perfume_id, today)
                    THEN [d EXCEPT !.discount_percentage =
                                       IF discount_percentage # Absent
                                       THEN discount_percentage.n ELSE @,
                                   !.end_date = IF end_date # Absent THEN end_date.n ELSE @]
                    ELSE d : d \in discounts}
            /\ OfferDone("update_special_offer", "admin", perfume_id, 200, "")
    /\ UNCHANGED <<perfumes, shop, reviews, next_review_id, next_discount_id, today,
                   offer_tx, overlapped>>

\* perfumes.py lines 490-513
delete_special_offer(perfume_id) ==
    /\ ~OfferRowLocked(perfume_id)
    /\ IF ActiveOffers(discounts, perfume_id, today) = {}
       THEN /\ OfferDone("delete_special_offer", "admin", perfume_id, 404,
                         "No active special offer found for this perfume")
            /\ UNCHANGED discounts
       ELSE /\ discounts' = discounts \ ActiveOffers(discounts, perfume_id, today)
            /\ OfferDone("delete_special_offer", "admin", perfume_id, 200, "")
    /\ UNCHANGED <<perfumes, shop, reviews, next_review_id, next_discount_id, today,
                   offer_tx, overlapped>>

\* midnight
NextDay ==
    /\ today < MaxDay
    /\ today' = today + 1
    /\ UNCHANGED <<perfumes, shop, reviews, next_review_id, discounts, next_discount_id,
                   offer_tx, overlapped, last>>

Dates == {Num(d) : d \in 0..(MaxDay + 1)}

\* the forms posted to /admin/special-offers
OfferForms ==
    {[id |-> Num(1), discount_percentage |-> Num(10), end_date |-> e] : e \in Dates}
        \cup {[id |-> i, discount_percentage |-> Num(10), end_date |-> Num(MaxDay)] :
                 i \in {Absent, Num(UnknownId)}}
        \cup {[id |-> Num(1), discount_percentage |-> pct, end_date |-> Num(MaxDay)] :
                 pct \in {Num(100), Str("ten"), Absent}}

\* the forms put to /admin/special-offers/<perfume_id>
UpdateForms ==
    {[discount_percentage |-> Absent, end_date |-> e] : e \in Dates \cup {Absent}}
        \cup {[discount_percentage |-> pct, end_date |-> Absent] : pct \in {Num(20), Num(0)}}

NextOffers ==
    \/ \E a \in AdminSessions, f \in OfferForms :
          add_special_offer(a, f.id, f.discount_percentage, f.end_date)
    \/ \E a \in AdminSessions : add_special_offer_commit(a)
    \/ \E p \in {1, UnknownId}, f \in UpdateForms :
          update_special_offer(p, f.discount_percentage, f.end_date)
    \/ \E p \in {1, UnknownId} : delete_special_offer(p)
    \/ NextDay

SpecOffers == Init /\ [][NextOffers]_vars

\* ------------------------------------------- properties of special offers
\* the active discounts of a product: end_date on or after the day
ActiveOn(rows, p, day) == {d \in rows : d.perfume_id = p /\ d.end_date >= day}

\* admin session a's add_special_offer passes its checks in this step
OfferAdmitted(a) == ~offer_tx[a].open /\ offer_tx'[a].open

\* admin session a's add_special_offer commits in this step
OfferCommits(a) == offer_tx[a].open /\ ~offer_tx'[a].open

\* an add_special_offer request is answered with an error in this step
OfferRefused ==
    /\ last' # last
    /\ last'.op = "add_special_offer"
    /\ \A a \in AdminSessions : ~OfferCommits(a)

\* C18: as long as no two add_special_offer requests overlap, each product
\* has at most one active discount, whatever was added, updated, deleted and
\* however many days passed; an add_special_offer on a product that has an
\* active discount returns an error and inserts nothing.
C18_OneActiveDiscount ==
    [][/\ ~overlapped' =>
              \A p \in PerfumeIds : Cardinality(ActiveOn(discounts', p, today')) <= 1
       /\ \A a \in AdminSessions :
              OfferAdmitted(a) => ActiveOn(discounts, offer_tx'[a].perfume_id, today) = {}
       /\ (OfferRefused /\ ActiveOn(discounts, last'.perfume_id, today) # {})
              => /\ last'.resp.code = 400
                 /\ discounts' = discounts
                 /\ offer_tx' = offer_tx]_vars

\* an expired and an active discount on one product, and a refused third
C18_Witness ==
    /\ ~overlapped
    /\ last.op = "add_special_offer"
    /\ last.resp = Response(400, "Perfume already has an active special offer", "", 0)
    /\ Cardinality({d \in discounts : d.perfume_id = last.perfume_id}) = 2
    /\ Cardinality(ActiveOn(discounts, last.perfume_id, today)) = 1

\* C19: the commit of an add_special_offer that passed its check inserts
\* the row and answers 201 whatever has been committed since the check, so
\* two requests in flight together for a product without an active discount
\* both commit.
C19_CheckThenInsert ==
    [][\A a \in AdminSessions :
          OfferCommits(a) => /\ discounts' = discounts \cup {offer_tx[a].row}
                             /\ offer_tx[a].row \notin discounts
                             /\ last'.resp.code = 201]_vars

\* two active discounts on one product, from two requests in flight together
C19_Witness ==
    /\ overlapped
    /\ last.op = "add_special_offer"
    /\ last.resp.code = 201
    /\ Cardinality(ActiveOn(discounts, last.perfume_id, today)) = 2

\* ------------------------------------------------------- revenue reports
MaxCancelled == 1

\* revenue.py line 75: request.args.get('days', 30)
ReportDays == 30

\* DATE_FORMAT(created_at, '%Y-%m'): the days of one month share its name
DaysPerMonth == 30

\* line 285: INTERVAL 12 MONTH
MonthWindow == 12

MonthOf(day) == day \div DaysPerMonth

RECURSIVE Sum(_, _)
\* SUM(f) over the rows S, f a function on S
Sum(f, S) ==
    IF S = {} THEN 0
    ELSE LET r == CHOOSE x \in S : TRUE
         IN f[r] + Sum(f, S \ {r})

RECURSIVE GCD(_, _)
GCD(a, b) == IF b = 0 THEN a ELSE GCD(b, a % b)

\* AVG as an exact fraction in lowest terms; float(NULL or 0) = 0 over no rows
Avg(total, count) ==
    IF count = 0 \/ total = 0 THEN [num |-> 0, den |-> 1]
    ELSE [num |-> total \div GCD(total, count), den |-> count \div GCD(total, count)]

\* total_amount + COALESCE(shipping_cost, 0) + COALESCE(tax_amount, 0)
Revenue(o) == o.total_amount + o.shipping_cost + o.tax_amount

\* WHERE created_at >= start AND status != 'cancelled'
LiveSince(rows, start) ==
    {o \in rows : o.created_at >= start /\ o.status # "cancelled"}

\* revenue.py lines 27-40
revenue_verify_admin_token(h, now) ==
    IF ~h.present THEN Verdict(401, "Token missing")
    ELSE IF StartsWithBearer(h) THEN Verdict(401, "Use raw token, not Bearer")
    ELSE IF jwt_decode(h, now) = "ExpiredSignatureError" THEN Verdict(401, "Token expired")
    ELSE IF jwt_decode(h, now) = "InvalidTokenError" THEN Verdict(401, "Invalid token")
    ELSE IF h.token.role_id # 1 THEN Verdict(403, "Access denied - Admin only")
    ELSE Passed

\* lines 79-90 and 161-168: the summary of the sales report
sales_summary(rows, day) ==
    LET W == LiveSince(rows, day - ReportDays)
    IN [total_orders |-> Cardinality(W),
        total_sales |-> Sum([o \in W |-> o.total_amount], W),
        total_shipping |-> Sum([o \in W |-> o.shipping_cost], W),
        total_tax |-> Sum([o \in W |-> o.tax_amount], W),
        avg_order_value |-> Avg(Sum([o \in W |-> o.total_amount], W), Cardinality(W))]

\* lines 92-99
orders_by_status(rows, day) ==
    LET W == {o \in rows : o.created_at >= day - ReportDays}
    IN {[status |-> st, count |-> Cardinality({o \in W : o.status = st})] :
           st \in {o.status : o \in W}}

\* lines 101-119: order_items joined to perfumes and to orders, grouped by
\* perfume (at most ten groups exist, so LIMIT 10 drops none)
top_perfumes(rows, items, catalog, day) ==
    LET W == LiveSince(rows, day - ReportDays)
        J == {oi \in items : /\ oi.perfume_id \in DOMAIN catalog
                              /\ catalog[oi.perfume_id].exists
                              /\ \E o \in W : o.id = oi.order_id}
    IN {[id |-> p,
         total_quantity |-> Sum([oi \in J |-> oi.quantity], {oi \in J : oi.perfume_id = p}),
         total_revenue |->
             Sum([oi \in J |-> oi.quantity * oi.unit_price], {oi \in J : oi.perfume_id = p}),
         num_orders |-> Cardinality({oi.order_id : oi \in {x \in J : x.perfume_id = p}})] :
           p \in {oi.perfume_id : oi \in J}}

\* lines 121-143: the window of this query is always 30 days
daily_sales(rows, day) ==
    LET W == LiveSince(rows, day - 30)
    IN {[date |-> d,
         orders |-> Cardinality({o \in W : o.created_at = d}),
         revenue |-> Sum([o \in W |-> Revenue(o)], {o \in W : o.created_at = d})] :
           d \in {o.created_at : o \in W}}

\* lines 145-155
payment_methods(rows, day) ==
    LET W == LiveSince(rows, day - ReportDays)
    IN {[payment_method |-> m,
         count |-> Cardinality({o \in W : o.payment_method = m}),
         revenue |-> Sum([o \in W |-> Revenue(o)], {o \in W : o.payment_method = m})] :
           m \in {o.payment_method : o \in W}}

NotFound == [kind |-> "not found"]

\* lines 199-221: perfumes LEFT JOIN order_items LEFT JOIN orders; a perfume
\* without order items yields one row of NULLs, which the WHERE keeps; a
\* perfume all of whose joined rows the WHERE drops yields no row at all
perfume_revenue_data(p, rows, items, catalog, day) ==
    LET mine == {oi \in items : oi.perfume_id = p}
        W == LiveSince(rows, day - ReportDays)
        kept == {oi \in mine : \E o \in W : o.id = oi.order_id}
    IN IF p \notin DOMAIN catalog \/ ~catalog[p].exists THEN NotFound
       ELSE IF mine # {} /\ kept = {} THEN NotFound
       ELSE [kind |-> "perfume", id |-> p,
             total_quantity_sold |-> Sum([oi \in kept |-> oi.quantity], kept),
             total_orders |-> Cardinality({oi.order_id : oi \in kept}),
             total_revenue |-> Sum([oi \in kept |-> oi.quantity * oi.unit_price], kept),
             avg_price_sold |-> Avg(Sum([oi \in kept |-> oi.unit_price], kept),
                                    Cardinality(kept))]

\* lines 223-243: the daily series of one perfume
perfume_daily(p, rows, items, day) ==
    LET W == LiveSince(rows, day - ReportDays)
        DayOf(oi) == (CHOOSE o \in W : o.id = oi.order_id).created_at
        J == {oi \in items : oi.perfume_id = p /\ \E o \in W : o.id = oi.order_id}
    IN {[date |-> d,
         quantity |-> Sum([oi \in J |-> oi.quantity], {oi \in J : DayOf(oi) = d}),
         revenue |->
             Sum([oi \in J |-> oi.quantity * oi.unit_price], {oi \in J : DayOf(oi) = d})] :
           d \in {DayOf(oi) : oi \in J}}

\* lines 276-305: one row per month over every order of the last twelve
\* months, whatever its status
monthly_rows(rows, day) ==
    LET W == {o \in rows : o.created_at >= day - MonthWindow * DaysPerMonth}
    IN {[month |-> m,
         total_orders |-> Cardinality({o \in W : MonthOf(o.created_at) = m}),
         total_revenue |->
             Sum([o \in W |-> Revenue(o)], {o \in W : MonthOf(o.created_at) = m}),
         avg_order_value |->
             Avg(Sum([o \in W |-> o.total_amount], {o \in W : MonthOf(o.created_at) = m}),
                 Cardinality({o \in W : MonthOf(o.created_at) = m})),
         completed_orders |->
             Cardinality({o \in W : MonthOf(o.created_at) = m /\ o.status = "paid"}),
         cancelled_orders |->
             Cardinality({o \in W : MonthOf(o.created_at) = m /\ o.status = "cancelled"})] :
           m \in {MonthOf(o.created_at) : o \in W}}

\* a response of the reporting endpoints; nothing is written
Reported(route, h, p, code, error, report) ==
    /\ last' = [NoExchange EXCEPT !.op = route, !.auth = h, !.at = clock,
                                  !.perfume_id = p,
                                  !.resp = Response(code, error, "", 0),
                                  !.report = report]
    /\ UNCHANGED <<perfumes, shop, reviews, next_review_id, offers>>

\* GET /admin/revenue/sales-report: lines 41-50 and 56-180
sales_report(h) ==
    LET v == revenue_verify_admin_token(h, clock)
    IN IF v # Passed
       THEN Reported("GET /admin/revenue/sales-report", h, 0, v.code, v.error, NoReport)
       ELSE Reported("GET /admin/revenue/sales-report", h, 0, 200, "",
                     [kind |-> "sales",
                      summary |-> sales_summary(orders, today),
                      orders_by_status |-> orders_by_status(orders, today),
                      top_perfumes |-> top_perfumes(orders, order_items, perfumes, today),
                      daily_sales |-> daily_sales(orders, today),
                      payment_methods |-> payment_methods(orders, today)])

\* GET /admin/revenue/perfume/<id>: lines 183-262
perfume_revenue(h, perfume_id) ==
    LET v == revenue_verify_admin_token(h, clock)
        found == perfume_revenue_data(perfume_id, orders, order_items, perfumes, today)
    IN IF v # Passed
       THEN Reported("GET /admin/revenue/perfume", h, perfume_id, v.code, v.error, NoReport)
       ELSE IF found = NotFound
       THEN Reported("GET /admin/revenue/perfume", h, perfume_id, 404, "Perfume not found",
                     NoReport)
       ELSE Reported("GET /admin/revenue/perfume", h, perfume_id, 200, "",
                     [kind |-> "perfume revenue", revenue |-> found,
                      daily_sales |-> perfume_daily(perfume_id, orders, order_items, today)])

\* GET /admin/revenue/monthly: lines 263-314
monthly_revenue(h) ==
    LET v == revenue_verify_admin_token(h, clock)
    IN IF v # Passed
       THEN Reported("GET /admin/revenue/monthly", h, 0, v.code, v.error, NoReport)
       ELSE Reported("GET /admin/revenue/monthly", h, 0, 200, "",
                     [kind |-> "monthly", monthly_revenue |-> monthly_rows(orders, today)])

\* an order is cancelled (the last step of pending -> paid | cod_pending ->
\* cancelled); no handler of these sources writes this status
cancel_order(id) ==
    /\ Cardinality({o \in orders : o.status = "cancelled"}) < MaxCancelled
    /\ \E o \in orders :
          /\ o.id = id
          /\ o.status \in {"paid", "cod_pending"}
          /\ orders' = (orders \ {o}) \cup {[o EXCEPT !.status = "cancelled"]}
    /\ UNCHANGED <<perfumes, carts, order_items, payment_details, next_order_id, row_lock,
                   session, counters, cart_tx, sold_out, after_zero, last, side>>

\* the tokens the two logins issue at hour 0
ReportHeaders ==
    {NoHeader, Header(<<>>, Token(1, "admin", TokenLifetime)),
     Header(<<>>, Token(2, "u1", TokenLifetime))}

\* checkouts one after the other, cancellations, days passing, and the admin
\* reading the reports
NextReports ==
    \/ /\ \A p \in Procs : pc[p] = "idle"
       /\ \E c \in Procs, d \in ShopBodies : checkout_begin(c, d)
    \/ \E c \in Procs : checkout_select(c)
    \/ \E c \in Procs : checkout_update(c)
    \/ \E c \in Procs : checkout_finish(c)
    \/ \E id \in 1..MaxCheckouts : cancel_order(id)
    \/ NextDay
    \/ \E h \in ReportHeaders : sales_report(h)
    \/ \E h \in ReportHeaders, p \in PerfumeIds \cup {UnknownId} : perfume_revenue(h, p)
    \/ \E h \in ReportHeaders : monthly_revenue(h)

SpecReports == Init /\ [][NextReports]_vars

\* the monetary columns of the monthly rollup
MonthlyMoney(rows, day) ==
    {[month |-> r.month, total_revenue |-> r.total_revenue,
      avg_order_value |-> r.avg_order_value] : r \in monthly_rows(rows, day)}

\* the data without the order o and its items
OrdersWithout(o) == orders \ {o}

ItemsWithout(o) == {oi \in order_items : oi.order_id # o.id}

\* C20: every monetary aggregate of the reporting endpoints excludes
\* cancelled orders: each value computed over the data equals the value
\* computed over the data without any one cancelled order (sales summary,
\* top products, daily revenue, payment methods, per-perfume revenue, and
\* the monthly rollup's total_revenue and avg_order_value).
C20_CancelledExcluded ==
    \A o \in orders :
        o.status = "cancelled" =>
            /\ sales_summary(orders, today) = sales_summary(OrdersWithout(o), today)
            /\ top_perfumes(orders, order_items, perfumes, today)
                   = top_perfumes(OrdersWithout(o), ItemsWithout(o), perfumes, today)
            /\ daily_sales(orders, today) = daily_sales(OrdersWithout(o), today)
            /\ payment_methods(orders, today) = payment_methods(OrdersWithout(o), today)
            /\ \A p \in PerfumeIds :
                  /\ perfume_revenue_data(p, orders, order_items, perfumes, today)
                         = perfume_revenue_data(p, OrdersWithout(o), ItemsWithout(o),
                                                perfumes, today)
                  /\ perfume_daily(p, orders, order_items, today)
                         = perfume_daily(p, OrdersWithout(o), ItemsWithout(o), today)
            /\ MonthlyMoney(orders, today) = MonthlyMoney(OrdersWithout(o), today)

\* ------------------------------------------------------- order lifecycle
OrderStatuses == {"pending", "paid", "cod_pending", "cancelled"}

\* some session's checkout request commits in this step
CheckoutCommits == \E c \in Procs : pc[c] = "finish" /\ pc'[c] = "idle"

\* C21: an order is created once per successful checkout (one new row, with
\* the order_id the response names, and no row otherwise), the status of
\* every committed order is one of pending, paid, cod_pending, cancelled,
\* and no step sets a committed paid or cod_pending order back to pending.
C21_StatusForward ==
    /\ [](/\ \A o \in orders : o.status \in OrderStatuses
          /\ \A o, n \in orders : o.id = n.id => o = n)
    /\ [][/\ \A o \in orders, n \in orders' :
                (o.id = n.id /\ o.status \in {"paid", "cod_pending"}) => n.status # "pending"
          /\ CheckoutCommits =>
                /\ last'.resp.code = 201
                /\ \E n \in orders' : /\ n.id = last'.resp.n
                                      /\ n.id \notin {o.id : o \in orders}
                                      /\ {o.id : o \in orders'} = {o.id : o \in orders} \cup {n.id}
          /\ ~CheckoutCommits => {o.id : o \in orders'} = {o.id : o \in orders}]_vars

\* a paid and a cod_pending order are committed, one after the other
C21_Witness ==
    /\ \E o \in orders : o.status = "paid"
    /\ \E o \in orders : o.status = "cod_pending"
    /\ last.op = "checkout" /\ last.resp.code = 201

\* the line item of the committing request that order item oi was written for
LineOf(oi) == last'.data.items[oi.line]

\* C22: the unit_price of every order item a checkout commits is the price
\* the client sent for that line item, whatever the catalog price is, and
\* no later step, an admin's change of the catalog price included, changes
\* the unit_price of an existing order item.
C22_UnitPriceSnapshot ==
    [][/\ CheckoutCommits =>
             \A oi \in order_items' \ order_items : oi.unit_price = LineOf(oi).price.n
       /\ \A oi \in order_items, n \in order_items' :
             (oi.order_id = n.order_id /\ oi.line = n.line) => n.unit_price = oi.unit_price
       /\ (last'.op = "update_perfume" /\ admin_ops' # admin_ops)
             => order_items' = order_items]_vars

\* the admin has changed the catalog price of a product that a committed
\* order item was sold at another price
C22_Witness ==
    /\ last.op = "update_perfume" /\ last.resp.code = 200
    /\ \E oi \in order_items :
          /\ perfumes[oi.perfume_id].price = 25
          /\ oi.unit_price # 25 /\ oi.unit_price # 15

\* ------------------------------------------------------- card validation
\* what the claim requires of the card details of a card checkout
CardOK(card) ==
    /\ ~IsBlank(card.cardName)
    /\ ~IsBlank(card.expiry)
    /\ Len(RemoveSpaces(card.cardNumber)) \in 13..19
    /\ IsDigit(RemoveSpaces(card.cardNumber))
    /\ IsDigit(card.cvv) /\ Len(card.cvv) \in {3, 4}

\* C23: a card checkout whose card holder name or expiry is empty, whose
\* card number is not 13 to 19 digits after stripping spaces, or whose CVV is
\* not 3 or 4 digits is answered 400, and no such request ever reaches the
\* first database write (a card number with non-digit characters included).
C23_CardValidated ==
    /\ \A c \in Procs :
          (pc[c] # "idle" /\ Lower(data[c].payment_method) = "card")
              => CardOK(data[c].card_details)
    /\ (/\ last.op = "checkout"
        /\ MissingFields(last.data) = {}
        /\ Lower(last.data.payment_method) = "card"
        /\ ~CardOK(last.data.card_details))
          => last.resp.code = 400

\* ------------------------------------------------------ review validation
\* review data the claim calls bad: a missing, non-integer or out-of-range
\* rating, an empty comment, a comment of more than 500 characters
BadReviewForm(form) ==
    \/ form.rating = Absent
    \/ form.rating.t = "str"
    \/ (form.rating.t = "num" /\ form.rating.n \notin 1..5)
    \/ Strip(form.comment) = <<>>
    \/ Len(Strip(form.comment)) > MaxCommentLen

\* C24: an add_review for an existing perfume whose rating is missing, not an
\* integer or outside 1..5, or whose comment is empty or longer than 500
\* characters, is answered 400 (never 500), and no review row with such data
\* is ever stored.
C24_BadReviewIs400 ==
    /\ (/\ last.op = "add_review"
        /\ last.perfume_id \in PerfumeIds
        /\ BadReviewForm(last.form))
          => last.resp.code = 400
    /\ \A r \in reviews :
          /\ r.rating \in 1..5
          /\ r.comment # <<>> /\ Len(r.comment) <= MaxCommentLen

\* ------------------------------------------------------ committed orders
\* C25: in every committed state no order has status pending, every order
\* has at least one order item, and every order paid by card has a payment
\* detail.
C25_CommittedOrdersComplete ==
    \A o \in orders :
        /\ o.status # "pending"
        /\ \E oi \in order_items : oi.order_id = o.id
        /\ o.payment_method = "card" => \E pd \in payment_details : pd.order_id = o.id

\* ---------------------------------------------- repeated line items
\* item lists that name a product in more than one line
RepeatedLists ==
    { <<Item(1, 1), Item(1, 1)>>, <<Item(1, 1), Item(1, MaxStock)>>,
      <<Item(1, MaxStock), Item(1, 1)>>, <<Item(1, 1), Item(2, 1), Item(1, 1)>>,
      <<Item(1, 1)>> }

RepeatedBodies == {Body("cod", items, Num(20)) : items \in RepeatedLists}

\* concurrent checkouts whose item lists repeat a product
NextLines ==
    \/ \E c \in Procs, d \in RepeatedBodies : checkout_begin(c, d)
    \/ \E c \in Procs : checkout_select(c)
    \/ \E c \in Procs : checkout_update(c)
    \/ \E c \in Procs : checkout_lock_error(c)
    \/ \E c \in Procs : checkout_finish(c)

SpecLines == Init /\ [][NextLines]_vars

\* the line items of a list that name product p
LinesOf(items, p) == {i \in 1..Len(items) : items[i].perfume_id.n = p}

RECURSIVE Requested(_, _)
\* the sum of the quantities a list requests of product p
Requested(items, p) ==
    IF items = <<>> THEN 0
    ELSE (IF Head(items).perfume_id.n = p THEN Head(items).quantity.n ELSE 0)
             + Requested(Tail(items), p)

Repeats(items) == \E p \in PerfumeIds : Cardinality(LinesOf(items, p)) >= 2

\* C26: a checkout that names a product in two or more line items commits
\* only if the sum of the quantities it requests of that product is at most
\* the product's committed stock, which the commit lowers by that sum; a
\* checkout with repeated lines that is rejected changes no table.
C26_CombinedQuantity ==
    [][\A c \in Procs :
          /\ (pc[c] = "finish" /\ pc'[c] = "idle") =>
                \A p \in PerfumeIds :
                    Cardinality(LinesOf(data[c].items, p)) >= 2 =>
                        /\ Requested(data[c].items, p) <= perfumes[p].quantity
                        /\ perfumes'[p].quantity
                               = perfumes[p].quantity - Requested(data[c].items, p)
          /\ (Responds(c) /\ Repeats(last'.data.items) /\ last'.resp.code # 201) =>
                UNCHANGED tables]_vars

\* one checkout with two lines of a product has committed, and another was
\* rejected at its second line of the product
C26_Witness ==
    /\ \E o \in orders :
          Cardinality({oi \in order_items : oi.order_id = o.id /\ oi.perfume_id = 1}) = 2
    /\ last.op = "checkout" /\ last.resp.code = 400 /\ last.idx >= 2
    /\ Repeats(last.data.items)
    /\ last.data.items[last.idx].perfume_id.n = 1
    /\ Cardinality(LinesOf(last.data.items, 1)) >= 2

\* ------------------------------------------------------- cart quantities
\* batches that ask for zero or a negative quantity
BasketBatches ==
    { <<CartItem(1, 1, NULL)>>, <<CartItem(1, 0, NULL)>>, <<CartItem(1, -1, NULL)>>,
      <<CartItem(2, MaxStock, NULL), CartItem(2, -1, NULL)>> }

\* customers fill and empty their carts, and one of them checks out
NextBasket ==
    \/ \E c \in Procs, items \in BasketBatches : add_to_cart(c, items)
    \/ \E c \in Procs : add_to_cart_commit(c)
    \/ \E c \in Procs, p \in PerfumeIds : remove_from_cart(c, p)
    \/ started = 0 /\ \E c \in Procs : checkout_begin(c, Body("cod", <<Item(1, 1)>>, Num(10)))
    \/ \E c \in Procs : checkout_select(c)
    \/ \E c \in Procs : checkout_update(c)
    \/ \E c \in Procs : checkout_finish(c)

SpecBasket == Init /\ [][NextBasket]_vars

\* C27: every cart row has quantity >= 1, and an add_to_cart never leaves
\* the cart quantity of a key lower than it was.
C27_CartQuantityPositive ==
    /\ [](\A r \in carts : r.quantity >= 1)
    /\ [][\A c \in Procs :
             AddResponds(c) =>
                 \A r \in carts :
                     r.user_id = c =>
                         QtyInCart(carts', c, r.perfume_id, r.size) >= r.quantity]_vars

\* ------------------------------------------------- invalid items of a batch
\* an item whose perfume_id and quantity convert to integers
ValidItem(it) == it.perfume_id.t = "num" /\ it.quantity.t \in {"num", "absent"}

\* C28: when a batch holds an item with invalid data (a missing or
\* non-integer perfume_id, a non-integer quantity), the request still ends
\* with 207 or 400, every invalid item is counted in the errors, and every
\* item the request added is in the committed cart.
C28_InvalidItemSkipped ==
    [][\A c \in Procs :
          (AddResponds(c) /\ \E it \in Range(cart_tx[c].items) : ~ValidItem(it)) =>
              /\ last'.resp.code \in {207, 400}
              /\ last'.errors >= Cardinality({i \in 1..Len(cart_tx[c].items) :
                                                 ~ValidItem(cart_tx[c].items[i])})
              /\ \A e \in Entries(cart_tx[c].added) :
                     QtyInCart(carts', c, e.perfume_id, e.size) = e.total_in_cart]_vars

\* ------------------------------------------------ concurrent cart adds
TwoAddBatches ==
    { <<CartItem(1, 1, NULL)>>, <<CartItem(1, MaxStock, NULL)>>,
      <<CartItem(2, 1, "100ml")>> }

\* add_to_cart requests on every connection, two of them of the same user
NextTwoAdds ==
    \/ \E k \in CartSessions, items \in TwoAddBatches : add_to_cart(k, items)
    \/ \E k \in CartSessions : add_to_cart_commit(k)

SpecTwoAdds == Init /\ [][NextTwoAdds]_vars

\* C29: when two add_to_cart requests of one user for the same (product,
\* size) key both read the existing quantity c before either commits and
\* both report the item as added, with quantities q1 and q2, the cart
\* quantity after the second commit is c + q1 + q2 and is at most the
\* product's stock.
C29_NoLostUpdate ==
    [][\A k \in CartSessions :
          (/\ AddResponds(k) /\ AddSucceeded
           /\ last.op = "add_to_cart" /\ last.resp.code \in {201, 207}
           /\ last.who = UserOf(k)) =>
              \A e1 \in Entries(last.added), e2 \in Entries(last'.added) :
                  (/\ e1.perfume_id = e2.perfume_id /\ e1.size = e2.size
                   /\ e2.current_qty = e1.current_qty) =>
                      /\ QtyInCart(carts', UserOf(k), e2.perfume_id, e2.size)
                             = e1.current_qty + e1.quantity + e2.quantity
                      /\ QtyInCart(carts', UserOf(k), e2.perfume_id, e2.size)
                             <= perfumes'[e2.perfume_id].quantity]_vars

\* -------------------------------------------------------------- favorites
\* what the favorites handlers never touch
beside == <<tables, next_order_id, row_lock, session, counters, cart_tx, sold_out,
            after_zero, clock, tokens, reviews, next_review_id, offers>>

\* [int(pid) for pid in perfume_ids] raises on anything that is not a number
AllIntegers(perfume_ids) == \A i \in 1..Len(perfume_ids) : Converts(perfume_ids[i])

Ints(perfume_ids) == [i \in 1..Len(perfume_ids) |-> perfume_ids[i].n]

FavoriteDone(op, c, perfume_ids, code, error, ids, removed) ==
    last' = [NoExchange EXCEPT !.op = op, !.who = c, !.items = perfume_ids,
                               !.resp = Response(code, error, "", Len(ids)),
                               !.ids = ids, !.removed = removed]

RECURSIVE insert_ignore(_, _, _)
\* favorites.py lines 71-87, the loop; acc = [rows, added]
insert_ignore(user_id, pids, acc) ==
    IF pids = <<>> THEN acc
    ELSE LET pid == Head(pids)
             row == [user_id |-> user_id, perfume_id |-> pid]
         IN IF pid \notin PerfumeIds \/ ~perfumes[pid].exists \/ perfumes[pid].available # 1
            THEN insert_ignore(user_id, Tail(pids), acc)
            ELSE IF row \in acc.rows
            THEN insert_ignore(user_id, Tail(pids), acc)
            ELSE insert_ignore(user_id, Tail(pids),
                               [rows |-> acc.rows \cup {row}, added |-> Append(acc.added, pid)])

\* POST /favorites: favorites.py lines 48-102, for a request that passed
\* jwt_required
add_to_favorites(c, perfume_ids) ==
    /\ IF perfume_ids = <<>>
       THEN /\ FavoriteDone("add_to_favorites", c, perfume_ids, 400,
                            "perfume_ids array required", <<>>, {})
            /\ UNCHANGED favorites
       ELSE IF ~AllIntegers(perfume_ids)
       THEN /\ FavoriteDone("add_to_favorites", c, perfume_ids, 400,
                            "All perfume_ids must be integers", <<>>, {})
            /\ UNCHANGED favorites
       ELSE LET res == insert_ignore(c, Ints(perfume_ids), [rows |-> favorites, added |-> <<>>])
            IN /\ favorites' = res.rows
               /\ FavoriteDone("add_to_favorites", c, perfume_ids, 200, "", res.added, {})
    /\ UNCHANGED beside

\* line 174: perfume_ids[:deleted_count]
removed_perfume_ids(pids, deleted_count) == SubSeq(pids, 1, deleted_count)

\* DELETE /favorites: favorites.py lines 141-186
remove_from_favorites(c, perfume_ids) ==
    /\ IF perfume_ids = <<>>
       THEN /\ FavoriteDone("remove_from_favorites", c, perfume_ids, 400,
                            "perfume_ids array required", <<>>, {})
            /\ UNCHANGED favorites
       ELSE IF ~AllIntegers(perfume_ids)
       THEN /\ FavoriteDone("remove_from_favorites", c, perfume_ids, 400,
                            "All perfume_ids must be integers", <<>>, {})
            /\ UNCHANGED favorites
       ELSE LET pids == Ints(perfume_ids)
                gone == {f \in favorites : f.user_id = c /\ f.perfume_id \in Range(pids)}
                deleted_count == Cardinality(gone)
            IN /\ favorites' = favorites \ gone
               /\ IF deleted_count = 0
                  THEN FavoriteDone("remove_from_favorites", c, perfume_ids, 200,
                                    "No items removed (not in favorites)", <<>>, gone)
                  ELSE FavoriteDone("remove_from_favorites", c, perfume_ids, 200, "",
                                    removed_perfume_ids(pids, deleted_count), gone)
    /\ UNCHANGED beside

\* the perfume_ids arrays of the requests
FavoriteLists ==
    { <<>>, <<Num(1)>>, <<Num(2)>>, <<Num(1), Num(2)>>, <<Num(2), Num(1)>>,
      <<Num(UnknownId), Num(1)>>, <<Num(1), Str("x")>> }

NextFavorites ==
    \/ \E c \in Procs, ids \in FavoriteLists : add_to_favorites(c, ids)
    \/ \E c \in Procs, ids \in FavoriteLists : remove_from_favorites(c, ids)

SpecFavorites == Init /\ [][NextFavorites]_vars

\* C30: remove_from_favorites deletes exactly the caller's favorites among
\* the requested ids and no other row, and the removed_perfume_ids it
\* returns are exactly the requested ids that were the caller's favorites
\* before the call.
C30_RemovedAreFavorites ==
    [][(last'.op = "remove_from_favorites" /\ last'.resp.code = 200) =>
          LET c == last'.who
              asked == Range(Ints(last'.items))
          IN /\ favorites \ favorites'
                    = {f \in favorites : f.user_id = c /\ f.perfume_id \in asked}
             /\ favorites' \subseteq favorites
             /\ Range(last'.ids)
                    = {p \in asked : [user_id |-> c, perfume_id |-> p] \in favorites}]_vars


====
